---------------------------- MODULE Spec2Model ----------------------------
(***************************************************************************)
(* Model of hidet's loop expander (graph/ops/schedules/common.py) and of   *)
(* the CUDA primitive generators (ir/primitives/cuda/cp_async.py, mma.py). *)
(*                                                                         *)
(* Part I   the compute IR, the statement builder and LoopExpander         *)
(* Part II  an interpreter of the emitted statements                       *)
(* Part III the primitive registry, the call constructors and the          *)
(*          cp.async pending-group machine                                 *)
(***************************************************************************)
EXTENDS Integers, Sequences, FiniteSets, TLC

VARIABLES
    pc,              \* "lower" | "exec" | "done" | "failed"   (Part I/II)
                     \* "import" | "ready" | "call" | "blocked" | "returned" |
                     \* "asm_error" | "dup_error"  (Part III)
    expr,            \* expand_loop argument: the expression
    input_map,       \* expand_loop argument: node identity -> Var
    seed,            \* contents of the caller's input tensors
    stmts,           \* expand_loop result: the statement sequence
    value,           \* expand_loop result: the result handle
    new_buffer_map,  \* expand_loop result: node identity -> new Var
    error,           \* exception raised by expand_loop, "none" if it returned
    stack,           \* interpreter: control stack of the emitted program
    env,             \* interpreter: scalar variables
    mem,             \* interpreter: buffers
    nstores,         \* interpreter: number of stores executed per (buffer, index)
    nupdates,        \* interpreter: number of IfStmt bodies entered
    registry,        \* primitive function registry: name -> function
    mma_configs,     \* mma.py's mma_configs dict, in insertion order
    loader,          \* the modules imported so far and the generator that is running
    last,            \* the last call made to a constructor, and its outcome
    hw               \* the issuing context's cp.async state

lowerVars == <<expr, input_map, seed, stmts, value, new_buffer_map, error,
               stack, env, mem, nstores, nupdates>>

primVars == <<registry, mma_configs, loader, last, hw>>

vars == <<pc, lowerVars, primVars>>

----------------------------------------------------------------------------
(* Bounds *)

\* largest size of one grid / reduction dimension
MaxDim == 2

\* largest extent of an arg-reduce axis
MaxExtent == 4

\* most asynchronous copies one kernel issues
MaxCopies == 2

\* most groups one kernel commits
MaxCommits == 2

----------------------------------------------------------------------------
(* Part I.a  expressions and compute nodes                                 *)

EmptyMap == [x \in {} |-> x]

Put(f, key, v) == [x \in DOMAIN f \cup {key} |-> IF x = key THEN v ELSE f[x]]

\* hidet.ir.expr.Var: a variable is an object; ser tells two Vars of one name apart
Var(name, type, ser) == [k |-> "Var", name |-> name, type |-> type, ser |-> ser]

Constant(v) == [k |-> "Constant", v |-> v]

Add(a, b) == [k |-> "Add", a |-> a, b |-> b]

Multiply(a, b) == [k |-> "Multiply", a |-> a, b |-> b]

Div(a, b) == [k |-> "Div", a |-> a, b |-> b]

Max(a, b) == [k |-> "Max", a |-> a, b |-> b]

Min(a, b) == [k |-> "Min", a |-> a, b |-> b]

LessThan(a, b) == [k |-> "LessThan", a |-> a, b |-> b]

TensorElement(base, indices) == [k |-> "TensorElement", base |-> base, indices |-> indices]

NoCompute == [c |-> "None"]

GridCompute(shape, axes, val) ==
    [c |-> "GridCompute", shape |-> shape, axes |-> axes, value |-> val]

ReduceCompute(shape, axes, val, op) ==
    [c |-> "ReduceCompute", shape |-> shape, axes |-> axes, value |-> val,
     reduce_operation |-> op]

ArgReduceCompute(extent, axis, val, op, index_dtype) ==
    [c |-> "ArgReduceCompute", extent |-> extent, axis |-> axis, value |-> val,
     reduce_operation |-> op, index_dtype |-> index_dtype]

\* a compute variant the expander has no branch for
CustomCompute == [c |-> "CustomCompute"]

\* the node's name is its identity: one name, one node object
TensorNode(name, dtype, shape, tc) ==
    [k |-> "TensorNode", name |-> name, data_type |-> dtype, shape |-> shape,
     compute |-> tc]

ScalarNode(name, dtype, sc) ==
    [k |-> "ScalarNode", name |-> name, data_type |-> dtype, compute |-> sc]

----------------------------------------------------------------------------
(* Part I.b  statements and the statement builder                          *)

ForStmt(loop_var, extent) ==
    [s |-> "ForStmt", loop_var |-> loop_var, extent |-> extent, body |-> <<>>]

BufferStoreStmt(buf, indices, val) ==
    [s |-> "BufferStoreStmt", buf |-> buf, indices |-> indices, value |-> val]

AssignStmt(v, val) == [s |-> "AssignStmt", var |-> v, value |-> val]

DeclareStmt(v, init) == [s |-> "DeclareStmt", var |-> v, value |-> init]

IfStmt(cond) == [s |-> "IfStmt", cond |-> cond, body |-> <<>>]

\* StmtBuilder(): one open scope, the function body
StmtBuilder == << <<>> >>

SbAppend(sb, stmt) == [sb EXCEPT ![Len(sb)] = Append(@, stmt)]

\* enter_body(stmt): the statement goes to the current scope, its body is opened
SbEnterBody(sb, stmt) == Append(SbAppend(sb, stmt), <<>>)

\* exit_body(): the open scope becomes the body of the statement that opened it
SbExitBody(sb) ==
    LET body == sb[Len(sb)]
        rest == SubSeq(sb, 1, Len(sb) - 1)
        top  == rest[Len(rest)]
        opener == top[Len(top)]
    IN  [rest EXCEPT ![Len(rest)] = [top EXCEPT ![Len(top)] = [opener EXCEPT !.body = body]]]

SbDepth(sb) == Len(sb) - 1

SbFinish(sb) == sb[1]

----------------------------------------------------------------------------
(* Part I.c  reduce operations and type inference                          *)

TypeRank(t) == CASE t = "uint8" -> 1 [] t = "int32" -> 2 [] t = "float32" -> 3 [] OTHER -> 0

Promote(ta, tb) == IF TypeRank(ta) >= TypeRank(tb) THEN ta ELSE tb

min_value(dtype) ==
    CASE dtype = "uint8" -> 0 [] dtype = "int32" -> (-2147483647) - 1 [] OTHER -> -1000000000

max_value(dtype) ==
    CASE dtype = "uint8" -> 255 [] dtype = "int32" -> 2147483647 [] OTHER -> 1000000000

RECURSIVE infer_type(_)
infer_type(e) ==
    CASE e.k = "Constant" -> "int32"
      [] e.k = "Var" -> e.type
      [] e.k \in {"TensorNode", "ScalarNode"} -> e.data_type
      [] e.k = "TensorElement" -> infer_type(e.base)
      [] e.k = "LessThan" -> "bool"
      [] OTHER -> Promote(infer_type(e.a), infer_type(e.b))

\* ReduceOperation.initial_value: the identity of the operation for a type
initial_value(op, dtype) ==
    CASE op = "max" -> Constant(min_value(dtype))
      [] op = "min" -> Constant(max_value(dtype))
      [] OTHER -> Constant(0)

\* ReduceOperation.combine
combine(op, lhs, rhs) ==
    CASE op = "max" -> Max(lhs, rhs)
      [] op = "min" -> Min(lhs, rhs)
      [] OTHER -> Add(lhs, rhs)

\* ReduceOperation.finalize: divide by the count for the mean, identity otherwise
finalize(op, acc, size) == IF op = "avg" THEN Div(acc, Constant(size)) ELSE acc

\* ReduceOperation.arg_combine(lhs_value, rhs_value): the candidate replaces the
\* current best only when it is strictly better
arg_combine(op, lhs_value, rhs_value) ==
    IF op = "min" THEN LessThan(lhs_value, rhs_value) ELSE LessThan(rhs_value, lhs_value)

RECURSIVE prod(_)
prod(shape) == IF shape = <<>> THEN 1 ELSE Head(shape) * prod(Tail(shape))

----------------------------------------------------------------------------
(* Part I.d  LoopExpander                                                  *)

\* LoopExpander.__init__ ; serial numbers the Var objects created so far
LoopExpander ==
    [sb |-> StmtBuilder, new_buffer_map |-> EmptyMap, serial |-> 0, err |-> "none"]

Ret(st, res) == [st |-> st, res |-> res]

Raise(st, kind) == [st |-> [st EXCEPT !.err = kind], res |-> Constant(0)]

\* mutant: the loops are opened innermost dimension first
RECURSIVE EnterLoops_Reversed(_, _, _)
EnterLoops_Reversed(sb, axes, shape) ==
    IF shape = <<>> THEN sb
    ELSE EnterLoops_Reversed(SbEnterBody(sb, ForStmt(axes[Len(axes)], shape[Len(shape)])),
                             SubSeq(axes, 1, Len(axes) - 1), SubSeq(shape, 1, Len(shape) - 1))

\* for i in range(len(shape)): sb.enter_body(ForStmt(axes[i], shape[i]))
RECURSIVE EnterLoops(_, _, _)
EnterLoops(sb, axes, shape) ==
    IF shape = <<>> THEN sb
    ELSE EnterLoops(SbEnterBody(sb, ForStmt(Head(axes), Head(shape))), Tail(axes), Tail(shape))

\* mutant: the outermost loop is left open
RECURSIVE ExitLoops_OneShort(_, _)
ExitLoops_OneShort(sb, n) ==
    IF n <= 1 THEN sb ELSE ExitLoops_OneShort(SbExitBody(sb), n - 1)

\* for i in range(len(shape)): sb.exit_body()
RECURSIVE ExitLoops(_, _)
ExitLoops(sb, n) == IF n = 0 THEN sb ELSE ExitLoops(SbExitBody(sb), n - 1)

\* the buffer a Grid Compute node is stored to, and the expander after choosing it
GridBuffer(e, st, imap) ==
    IF e.name \in DOMAIN imap
    THEN [buf |-> imap[e.name], st |-> st]
    ELSE LET buf == Var(e.name, e.data_type, st.serial + 1)
         IN  [buf |-> buf,
              st  |-> [st EXCEPT !.serial = @ + 1,
                                 !.new_buffer_map = Put(@, e.name, buf)]]

\* the statement that ends a Grid Compute's innermost loop body
GridStore(buf, axes, val) == BufferStoreStmt(buf, axes, val)

\* mutant: a missing leaf is reported as an unsupported pattern
InputLookup_Unsupported(e, st, imap) ==
    IF e.name \in DOMAIN imap THEN Ret(st, imap[e.name]) ELSE Raise(st, "NotImplementedError")

\* the leaf lookup self.input_map[e]
InputLookup(e, st, imap) ==
    IF e.name \in DOMAIN imap THEN Ret(st, imap[e.name]) ELSE Raise(st, "KeyError")

\* raise NotImplementedError('Compute pattern ...')
UnsupportedPattern(st) == Raise(st, "NotImplementedError")

\* mutant: finalize is handed the first reduction dimension, not the product
ReduceSize_FirstDim(shape) == IF shape = <<>> THEN 1 ELSE Head(shape)

\* the total extent handed to finalize
ReduceSize(shape) == prod(shape)

\* the value the accumulator of a Reduce Compute is initialised with
ReduceInit(e, sc) == initial_value(sc.reduce_operation, e.data_type)

\* if e is in the input buffer, write the result back
WriteBack(e, sb, imap, res) ==
    IF e.name \in DOMAIN imap THEN SbAppend(sb, AssignStmt(imap[e.name], res)) ELSE sb

\* mutant: only the best index is updated, the best value keeps its initial value
ArgUpdate_IndexOnly(sb, sc, cand, acc_value, acc_index) ==
    SbExitBody(
        SbAppend(
            SbEnterBody(sb, IfStmt(arg_combine(sc.reduce_operation, cand, acc_value))),
            AssignStmt(acc_index, sc.axis)))

\* the guarded update of both arg-reduce accumulators
ArgUpdate(sb, sc, cand, acc_value, acc_index) ==
    SbExitBody(
        SbAppend(
            SbAppend(
                SbEnterBody(sb, IfStmt(arg_combine(sc.reduce_operation, cand, acc_value))),
                AssignStmt(acc_value, cand)),
            AssignStmt(acc_index, sc.axis)))

RECURSIVE visit(_, _, _)

\* mutant: a Grid Compute node lowered before is answered from new_buffer_map
visit_TensorNode_Cached(e, st, imap) ==
    IF e.compute.c = "None" THEN InputLookup(e, st, imap)
    ELSE IF e.compute.c = "GridCompute" /\ e.name \in DOMAIN st.new_buffer_map
    THEN Ret(st, st.new_buffer_map[e.name])
    ELSE IF e.compute.c = "GridCompute" THEN
        LET gc  == e.compute
            g   == GridBuffer(e, st, imap)
            st1 == [g.st EXCEPT !.sb = EnterLoops(@, gc.axes, gc.shape)]
            r   == visit(gc.value, st1, imap)
        IN  IF r.st.err # "none" THEN r
            ELSE Ret([r.st EXCEPT !.sb = ExitLoops(SbAppend(@, GridStore(g.buf, gc.axes, r.res)),
                                                   Len(gc.shape))],
                     g.buf)
    ELSE UnsupportedPattern(st)

visit_TensorNode(e, st, imap) ==
    IF e.compute.c = "None" THEN InputLookup(e, st, imap)
    ELSE IF e.compute.c = "GridCompute" THEN
        LET gc  == e.compute
            g   == GridBuffer(e, st, imap)
            st1 == [g.st EXCEPT !.sb = EnterLoops(@, gc.axes, gc.shape)]
            r   == visit(gc.value, st1, imap)
        IN  IF r.st.err # "none" THEN r
            ELSE Ret([r.st EXCEPT !.sb = ExitLoops(SbAppend(@, GridStore(g.buf, gc.axes, r.res)),
                                                   Len(gc.shape))],
                     g.buf)
    ELSE UnsupportedPattern(st)

visit_ReduceCompute(e, st, imap) ==
    LET sc  == e.compute
        op  == sc.reduce_operation
        acc == Var(e.name, infer_type(sc.value), st.serial + 1)
        st1 == [st EXCEPT !.serial = @ + 1,
                          !.new_buffer_map = Put(@, e.name, acc),
                          !.sb = EnterLoops(SbAppend(@, AssignStmt(acc, ReduceInit(e, sc))),
                                            sc.axes, sc.shape)]
        r   == visit(sc.value, st1, imap)
        fin == finalize(op, acc, ReduceSize(sc.shape))
    IN  IF r.st.err # "none" THEN r
        ELSE Ret([r.st EXCEPT !.sb = WriteBack(e,
                                         ExitLoops(SbAppend(@, AssignStmt(acc, combine(op, acc, r.res))),
                                                   Len(sc.shape)),
                                         imap, fin)],
                 fin)

visit_ArgReduceCompute(e, st, imap) ==
    LET sc  == e.compute
        op  == sc.reduce_operation
        value_dtype == infer_type(sc.value)
        acc_index == Var(e.name \o "_idx", sc.index_dtype, st.serial + 1)
        acc_value == Var(e.name \o "_val", value_dtype, st.serial + 2)
        st1 == [st EXCEPT !.serial = @ + 2,
                          !.new_buffer_map = Put(@, e.name, acc_index),
                          !.sb = SbEnterBody(
                                     SbAppend(
                                         SbAppend(@, DeclareStmt(acc_value,
                                                                 initial_value(op, value_dtype))),
                                         AssignStmt(acc_index, Constant(0))),
                                     ForStmt(sc.axis, sc.extent))]
        r   == visit(sc.value, st1, imap)
    IN  IF r.st.err # "none" THEN r
        ELSE Ret([r.st EXCEPT !.sb = WriteBack(e,
                                         SbExitBody(ArgUpdate(@, sc, r.res, acc_value, acc_index)),
                                         imap, acc_index)],
                 acc_index)

visit_ScalarNode(e, st, imap) ==
    IF e.compute.c = "None" THEN InputLookup(e, st, imap)
    ELSE IF e.compute.c = "ReduceCompute" THEN visit_ReduceCompute(e, st, imap)
    ELSE IF e.compute.c = "ArgReduceCompute" THEN visit_ArgReduceCompute(e, st, imap)
    ELSE UnsupportedPattern(st)

\* ExprRewriter on a list of children, left to right
RECURSIVE visit_list(_, _, _)
visit_list(es, st, imap) ==
    IF es = <<>> THEN Ret(st, <<>>)
    ELSE LET r == visit(Head(es), st, imap)
         IN  IF r.st.err # "none" THEN r
             ELSE LET rs == visit_list(Tail(es), r.st, imap)
                  IN  IF rs.st.err # "none" THEN rs ELSE Ret(rs.st, <<r.res>> \o rs.res)

\* ExprRewriter.visit: compute nodes go to the expander's methods, every other
\* node is rebuilt from its rewritten children; no result is remembered
visit(e, st, imap) ==
    CASE e.k = "TensorNode" -> visit_TensorNode(e, st, imap)
      [] e.k = "ScalarNode" -> visit_ScalarNode(e, st, imap)
      [] e.k \in {"Constant", "Var"} -> Ret(st, e)
      [] e.k = "TensorElement" ->
            LET rb == visit(e.base, st, imap)
            IN  IF rb.st.err # "none" THEN rb
                ELSE LET ri == visit_list(e.indices, rb.st, imap)
                     IN  IF ri.st.err # "none" THEN ri
                         ELSE Ret(ri.st, TensorElement(rb.res, ri.res))
      [] OTHER ->
            LET ra == visit(e.a, st, imap)
            IN  IF ra.st.err # "none" THEN ra
                ELSE LET rb == visit(e.b, ra.st, imap)
                     IN  IF rb.st.err # "none" THEN rb
                         ELSE Ret(rb.st, [e EXCEPT !.a = ra.res, !.b = rb.res])

\* LoopExpander.expand / expand_loop
expand_loop(e, imap) ==
    LET r == visit(e, LoopExpander, imap)
    IN  IF r.st.err # "none"
        THEN [err |-> r.st.err, stmt |-> <<>>, value |-> Constant(0),
              new_buffer_map |-> EmptyMap]
        ELSE [err |-> "none", stmt |-> SbFinish(r.st.sb), value |-> r.res,
              new_buffer_map |-> r.st.new_buffer_map]

----------------------------------------------------------------------------
(* Part II.a  the caller's data and the meaning of a compute expression    *)

\* row-major position of an index tuple in a tensor of the given shape
RECURSIVE Flat(_, _)
Flat(idx, shape) ==
    IF idx = <<>> THEN 0
    ELSE Head(idx) * prod(Tail(shape)) + Flat(Tail(idx), Tail(shape))

\* all index tuples of a shape: the Cartesian product of its dimension ranges
RECURSIVE IndexPoints(_)
IndexPoints(shape) ==
    IF shape = <<>> THEN {<<>>}
    ELSE {<<h>> \o t : h \in 0 .. (Head(shape) - 1), t \in IndexPoints(Tail(shape))}

\* element idx of input tensor `name`: the seed, repeated, B one place ahead of A
InputElement(name, shape, idx) ==
    seed[((Flat(idx, shape) + (IF name = "B" THEN 1 ELSE 0)) % Len(seed)) + 1]

InputScalar(name) == seed[1]

RECURSIVE SumOver(_, _)
SumOver(S, f) ==
    IF S = {} THEN 0 ELSE LET x == CHOOSE y \in S : TRUE IN f[x] + SumOver(S \ {x}, f)

Bind(aenv, axes, pt) ==
    [v \in DOMAIN aenv \cup {axes[n] : n \in DOMAIN axes} |->
        IF \E n \in DOMAIN axes : axes[n] = v
        THEN pt[CHOOSE n \in DOMAIN axes : axes[n] = v]
        ELSE aenv[v]]

\* the mathematical value of a scalar expression under an assignment of the axes
RECURSIVE Denote(_, _)
Denote(e, aenv) ==
    CASE e.k = "Constant" -> e.v
      [] e.k = "Var" -> aenv[e]
      [] e.k = "Add" -> Denote(e.a, aenv) + Denote(e.b, aenv)
      [] e.k = "Multiply" -> Denote(e.a, aenv) * Denote(e.b, aenv)
      [] e.k = "Div" -> Denote(e.a, aenv) \div Denote(e.b, aenv)
      [] e.k = "TensorElement" ->
            LET pt == [n \in DOMAIN e.indices |-> Denote(e.indices[n], aenv)]
            IN  IF e.base.compute.c = "None"
                THEN InputElement(e.base.name, e.base.shape, pt)
                ELSE Denote(e.base.compute.value, Bind(aenv, e.base.compute.axes, pt))
      [] e.k = "ScalarNode" ->
            IF e.compute.c = "None" THEN InputScalar(e.name)
            ELSE IF e.compute.c = "ReduceCompute" THEN
                LET pts == IndexPoints(e.compute.shape)
                    vs  == [pt \in pts |-> Denote(e.compute.value, Bind(aenv, e.compute.axes, pt))]
                IN  CASE e.compute.reduce_operation = "avg" ->
                              SumOver(pts, vs) \div Cardinality(pts)
                      [] e.compute.reduce_operation = "max" ->
                              vs[CHOOSE p \in pts : \A q \in pts : vs[q] <= vs[p]]
                      [] e.compute.reduce_operation = "min" ->
                              vs[CHOOSE p \in pts : \A q \in pts : vs[p] <= vs[q]]
                      [] OTHER -> SumOver(pts, vs)
            ELSE
                LET vs == [n \in 0 .. (e.compute.extent - 1) |->
                              Denote(e.compute.value, Bind(aenv, <<e.compute.axis>>, <<n>>))]
                IN  CHOOSE n \in DOMAIN vs :
                        /\ \A m \in DOMAIN vs : vs[m] <= vs[n]
                        /\ \A m \in DOMAIN vs : vs[m] = vs[n] => n <= m
      [] OTHER -> 0

----------------------------------------------------------------------------
(* Part II.b  execution of the emitted statements                          *)

RECURSIVE Eval(_, _, _)
Eval(e, en, me) ==
    CASE e.k = "Constant" -> e.v
      [] e.k = "Var" -> en[e]
      [] e.k = "Add" -> Eval(e.a, en, me) + Eval(e.b, en, me)
      [] e.k = "Multiply" -> Eval(e.a, en, me) * Eval(e.b, en, me)
      [] e.k = "Div" -> Eval(e.a, en, me) \div Eval(e.b, en, me)
      [] e.k = "Max" ->
            LET x == Eval(e.a, en, me) y == Eval(e.b, en, me) IN IF x >= y THEN x ELSE y
      [] e.k = "Min" ->
            LET x == Eval(e.a, en, me) y == Eval(e.b, en, me) IN IF x <= y THEN x ELSE y
      [] e.k = "LessThan" -> Eval(e.a, en, me) < Eval(e.b, en, me)
      [] e.k = "TensorElement" ->
            me[e.base][[n \in DOMAIN e.indices |-> Eval(e.indices[n], en, me)]]
      [] OTHER -> 0

Frame(kind, body, v, extent) ==
    [kind |-> kind, stmts |-> body, i |-> 1, var |-> v, iter |-> 0, extent |-> extent]

NoVar == Constant(0)

Top == stack[Len(stack)]

Bump(f, key) == Put(f, key, IF key \in DOMAIN f THEN f[key] + 1 ELSE 1)

\* the frame's statements are exhausted: next iteration of its loop, or leave it
ExecLeave ==
    /\ pc = "exec"
    /\ Top.i > Len(Top.stmts)
    /\ IF Top.kind = "for" /\ Top.iter + 1 < Top.extent
       THEN /\ stack' = [stack EXCEPT ![Len(stack)].iter = @ + 1, ![Len(stack)].i = 1]
            /\ env' = Put(env, Top.var, Top.iter + 1)
            /\ pc' = pc
       ELSE /\ stack' = SubSeq(stack, 1, Len(stack) - 1)
            /\ env' = env
            /\ pc' = IF Len(stack) = 1 THEN "done" ELSE pc
    /\ UNCHANGED <<expr, input_map, seed, stmts, value, new_buffer_map, error,
                   mem, nstores, nupdates, primVars>>

\* one statement of the current frame
ExecStmt ==
    /\ pc = "exec"
    /\ Top.i <= Len(Top.stmts)
    /\ LET st   == Top.stmts[Top.i]
           rest == [stack EXCEPT ![Len(stack)].i = @ + 1]
       IN  CASE st.s = "ForStmt" ->
                  /\ stack' = IF st.extent > 0
                              THEN Append(rest, Frame("for", st.body, st.loop_var, st.extent))
                              ELSE rest
                  /\ env' = IF st.extent > 0 THEN Put(env, st.loop_var, 0) ELSE env
                  /\ UNCHANGED <<mem, nstores, nupdates>>
             [] st.s = "IfStmt" ->
                  LET taken == Eval(st.cond, env, mem)
                  IN  /\ stack' = IF taken THEN Append(rest, Frame("if", st.body, NoVar, 0))
                                  ELSE rest
                      /\ nupdates' = IF taken THEN nupdates + 1 ELSE nupdates
                      /\ UNCHANGED <<env, mem, nstores>>
             [] st.s = "BufferStoreStmt" ->
                  LET idx == [n \in DOMAIN st.indices |-> Eval(st.indices[n], env, mem)]
                      old == IF st.buf \in DOMAIN mem THEN mem[st.buf] ELSE EmptyMap
                  IN  /\ mem' = Put(mem, st.buf, Put(old, idx, Eval(st.value, env, mem)))
                      /\ nstores' = Bump(nstores, <<st.buf, idx>>)
                      /\ stack' = rest
                      /\ UNCHANGED <<env, nupdates>>
             [] OTHER ->
                  /\ env' = Put(env, st.var, Eval(st.value, env, mem))
                  /\ stack' = rest
                  /\ UNCHANGED <<mem, nstores, nupdates>>
    /\ UNCHANGED <<pc, expr, input_map, seed, stmts, value, new_buffer_map, error,
                   primVars>>

----------------------------------------------------------------------------
(* Part II.c  the expressions and input maps expand_loop is called with    *)

Dims == 1 .. MaxDim

Dims0 == 0 .. MaxDim

Vals == {0, 2, 3, 5}

ax_i == Var("i", "int32", 0)

ax_j == Var("j", "int32", 0)

ax_k == Var("k", "int32", 0)

ax_l == Var("l", "int32", 0)

TensorInput(name, dtype, shape) == TensorNode(name, dtype, shape, NoCompute)

ScalarInput(name, dtype) == ScalarNode(name, dtype, NoCompute)

\* compute(shape, f): an elementwise tensor
GridNode(name, shape, axes, val) ==
    TensorNode(name, "int32", shape, GridCompute(shape, axes, val))

\* grids whose value depends on the axes only
PureGrids ==
    {GridNode("C", <<>>, <<>>, Constant(7))}
    \cup {GridNode("C", <<n>>, <<ax_i>>, Add(Multiply(ax_i, Constant(3)), Constant(1))) :
            n \in Dims0}
    \cup {GridNode("C", <<n, m>>, <<ax_i, ax_j>>, Add(Multiply(ax_i, Constant(10)), ax_j)) :
            n \in Dims0, m \in Dims0}

\* grids over input tensors and an input scalar
InputGrids ==
    {GridNode("C", <<n>>, <<ax_i>>,
              Multiply(TensorElement(TensorInput("A", "int32", <<n>>), <<ax_i>>),
                       ScalarInput("alpha", "int32"))) : n \in Dims}

ReduceOps == {"sum", "avg"}

Reduces ==
    {ScalarNode("s", "int32",
                ReduceCompute(<<>>, <<>>,
                              TensorElement(TensorInput("A", "int32", <<1>>), <<Constant(0)>>),
                              op)) : op \in ReduceOps}
    \cup {ScalarNode("s", "int32",
                     ReduceCompute(<<n>>, <<ax_k>>,
                                   TensorElement(TensorInput("A", "int32", <<n>>), <<ax_k>>),
                                   op)) : n \in Dims, op \in ReduceOps}
    \cup {ScalarNode("s", "int32",
                     ReduceCompute(<<n, m>>, <<ax_k, ax_l>>,
                                   TensorElement(TensorInput("A", "int32", <<n, m>>),
                                                 <<ax_k, ax_l>>),
                                   op)) : n \in Dims, m \in Dims, op \in ReduceOps}

\* reductions whose identity depends on the type: the node is declared with dtype,
\* the reduced values are of type vtype
TypedReduces ==
    {ScalarNode("s", dtype,
                ReduceCompute(<<n>>, <<ax_k>>,
                              TensorElement(TensorInput("A", vtype, <<n>>), <<ax_k>>),
                              op)) :
        n \in Dims, op \in {"max", "min"}, dtype \in {"int32", "uint8"}, vtype \in {"uint8"}}

\* compute([n, m], (i, j) -> reduce(A[i, k] * B[k, j], axis=k)), the docstring's example
MatMuls ==
    {GridNode("C", <<n, m>>, <<ax_i, ax_j>>,
              ScalarNode("s", "int32",
                         ReduceCompute(<<r>>, <<ax_k>>,
                                       Multiply(TensorElement(TensorInput("A", "int32", <<n, r>>),
                                                              <<ax_i, ax_k>>),
                                                TensorElement(TensorInput("B", "int32", <<r, m>>),
                                                              <<ax_k, ax_j>>)),
                                       op))) : n \in Dims, m \in Dims, r \in Dims, op \in ReduceOps}

ArgMax(extent) ==
    ScalarNode("am", "int32",
               ArgReduceCompute(extent, ax_k,
                                TensorElement(TensorInput("A", "uint8", <<extent>>), <<ax_k>>),
                                "max", "int32"))

\* compute([n], i -> argmax(A[i, k], axis=k))
GridArgMaxes ==
    {GridNode("C", <<n>>, <<ax_i>>,
              ScalarNode("am", "int32",
                         ArgReduceCompute(r, ax_k,
                                          TensorElement(TensorInput("A", "uint8", <<n, r>>),
                                                        <<ax_i, ax_k>>),
                                          "max", "int32"))) : n \in Dims, r \in Dims}

\* a tensor node used twice, and a grid read by another grid
SharedGrid(n) == GridNode("T", <<n>>, <<ax_j>>, Add(ax_j, Constant(1)))

OtherGrid(n) == GridNode("U", <<n>>, <<ax_j>>, Multiply(ax_j, Constant(2)))

SharedNodes ==
    {Add(TensorElement(SharedGrid(n), <<Constant(0)>>),
         TensorElement(SharedGrid(n), <<Constant(n - 1)>>)) : n \in Dims}
    \cup {GridNode("C", <<n>>, <<ax_i>>,
                   Add(TensorElement(SharedGrid(n), <<ax_i>>), Constant(1))) : n \in Dims}
    \cup {Add(Add(TensorElement(SharedGrid(n), <<Constant(0)>>),
                  TensorElement(SharedGrid(n), <<Constant(0)>>)),
              TensorElement(SharedGrid(n), <<Constant(n - 1)>>)) : n \in Dims}
    \cup {Add(TensorElement(SharedGrid(n), <<Constant(0)>>),
              TensorElement(OtherGrid(n), <<Constant(n - 1)>>)) : n \in Dims}
    \cup {Add(TensorElement(OtherGrid(n), <<Constant(0)>>),
              TensorElement(SharedGrid(n), <<Constant(n - 1)>>)) : n \in Dims}
    \cup {GridNode("C", <<n>>, <<ax_i>>,
                   Multiply(TensorElement(SharedGrid(n), <<ax_i>>),
                            TensorElement(SharedGrid(n), <<Constant(0)>>))) : n \in Dims}

\* compute variants the expander does not know
Unsupported ==
    {TensorNode("T", "int32", <<1>>, CustomCompute),
     ScalarNode("t", "int32", CustomCompute),
     GridNode("C", <<1>>, <<ax_i>>,
              Add(TensorElement(TensorNode("T", "int32", <<1>>, CustomCompute), <<ax_i>>),
                  ScalarNode("t", "int32", CustomCompute)))}

ShortSeeds == {<<a, b>> : a \in Vals, b \in Vals}

Cases ==
    {[e |-> x, seeds |-> {<<0>>}] : x \in PureGrids \cup SharedNodes \cup Unsupported}
    \cup {[e |-> x, seeds |-> ShortSeeds] : x \in InputGrids \cup Reduces}
    \cup {[e |-> x, seeds |-> {<<3, 5>>, <<2, 0, 5>>}] :
            x \in MatMuls \cup GridArgMaxes \cup TypedReduces}
    \cup {[e |-> ArgMax(n), seeds |-> [1 .. n -> Vals]] : n \in 1 .. MaxExtent}

RECURSIVE NodesOf(_)
NodesOf(e) ==
    CASE e.k \in {"Constant", "Var"} -> {}
      [] e.k \in {"TensorNode", "ScalarNode"} ->
            {e} \cup (IF e.compute.c \in {"None", "CustomCompute"} THEN {}
                      ELSE NodesOf(e.compute.value))
      [] e.k = "TensorElement" ->
            NodesOf(e.base) \cup UNION {NodesOf(e.indices[n]) : n \in DOMAIN e.indices}
      [] OTHER -> NodesOf(e.a) \cup NodesOf(e.b)

NodeNamed(e, name) == CHOOSE x \in NodesOf(e) : x.name = name

\* the storage the caller has placed for node `name`
CallerVar(e, name) == Var(name, NodeNamed(e, name).data_type, 0)

InputMaps(e) ==
    {[name \in S |-> CallerVar(e, name)] : S \in SUBSET {x.name : x \in NodesOf(e)}}

\* the caller's buffers hold the input tensors, its scalars the input scalars
CallerMem(e, imap) ==
    LET ins == {x \in NodesOf(e) :
                    x.k = "TensorNode" /\ x.compute.c = "None" /\ x.name \in DOMAIN imap}
    IN  [b \in {imap[x.name] : x \in ins} |->
            LET x == CHOOSE y \in ins : imap[y.name] = b
            IN  [pt \in IndexPoints(x.shape) |-> InputElement(x.name, x.shape, pt)]]

CallerEnv(e, imap) ==
    LET ins == {x \in NodesOf(e) :
                    x.k = "ScalarNode" /\ x.compute.c = "None" /\ x.name \in DOMAIN imap}
    IN  [v \in {imap[x.name] : x \in ins} |-> InputScalar(v.name)]

----------------------------------------------------------------------------
(* Part III.a  names, templates and the registry                           *)

\* an operand of an AsmStmt: its constraint label and the expression it binds
Operand(label, base, idx) == [label |-> label, base |-> base, idx |-> idx]

\* a device function whose body is one asm statement: groups are the placeholder
\* numbers written into the template, in the order they appear
Function(name, template, groups, outputs, inputs) ==
    [name |-> name, kind |-> "cuda_device", template |-> template, groups |-> groups,
     outputs |-> outputs, inputs |-> inputs]

\* range(lo, hi) as a sequence
RangeSeq(lo, hi) == [n \in 1 .. (hi - lo) |-> lo + n - 1]

RECURSIVE Join(_, _)
Join(parts, sep) ==
    IF parts = <<>> THEN ""
    ELSE IF Len(parts) = 1 THEN parts[1]
    ELSE parts[1] \o sep \o Join(Tail(parts), sep)

\* ', '.join([f'%{i}' for i in idxs])
Placeholders(idxs) == Join([n \in DOMAIN idxs |-> "%" \o ToString(idxs[n])], ", ")

\* cache_level[0]
FirstChar(cache_level) ==
    CASE cache_level = "always" -> "a" [] cache_level = "global" -> "g" [] OTHER -> "?"

\* mutant: the prefetch size is left out of the name
resolve_name_cp_async_NoPrefetch(cp_size, cache_level, prefetch_bytes) ==
    "cp_async_size_" \o ToString(cp_size) \o "_" \o "c" \o FirstChar(cache_level)

resolve_name_cp_async(cp_size, cache_level, prefetch_bytes) ==
    LET prefetch_part == IF prefetch_bytes # 0
                         THEN "_l2_" \o ToString(prefetch_bytes) \o "B"
                         ELSE ""
        cache_part == "c" \o FirstChar(cache_level)
    IN  "cp_async_size_" \o ToString(cp_size) \o "_" \o cache_part \o prefetch_part

\* register_primitive_function: a name is registered once
register_primitive_function(reg, name, func) ==
    IF name \in DOMAIN reg
    THEN [ok |-> FALSE, reg |-> reg]
    ELSE [ok |-> TRUE, reg |-> Put(reg, name, func)]

\* call_cuda(func_name, args): a call of the primitive 'cuda_' + func_name
call_cuda(func_name, args) ==
    [ok |-> TRUE, err |-> "none", func_name |-> "cuda_" \o func_name, args |-> args]

ValueError == [ok |-> FALSE, err |-> "ValueError", func_name |-> "", args |-> <<>>]

----------------------------------------------------------------------------
(* Part III.b  cp_async.py: the generators                                 *)

CpSizes == <<4, 8, 16>>

PrefetchBytes == <<0, 64, 128, 256>>

CacheLevels == <<"always", "global">>

\* the (cp_size, prefetch_bytes, cache_level) of the pos-th pass of the three loops
CpAsyncPass(pos) ==
    [cp_size |-> CpSizes[(pos \div (Len(PrefetchBytes) * Len(CacheLevels))) + 1],
     prefetch_bytes |-> PrefetchBytes[((pos \div Len(CacheLevels)) % Len(PrefetchBytes)) + 1],
     cache_level |-> CacheLevels[(pos % Len(CacheLevels)) + 1]]

CpAsyncPasses == Len(CpSizes) * Len(PrefetchBytes) * Len(CacheLevels)

\* cache level 'global' only supports a copy size of 16 bytes: continue
CpAsyncSkipped(p) == p.cache_level = "global" /\ p.cp_size # 16

cuda_cp_async(p) ==
    Function("cuda_" \o resolve_name_cp_async(p.cp_size, p.cache_level, p.prefetch_bytes),
             "cp.async." \o (IF p.cache_level = "always" THEN "ca" ELSE "cg")
                 \o ".shared.global"
                 \o (IF p.prefetch_bytes # 0
                     THEN ".L2::" \o ToString(p.prefetch_bytes) \o "B" ELSE "")
                 \o " [%0], [%1], %2, %3;",
             <<RangeSeq(0, 4)>>,
             <<>>,
             <<Operand("", "dst_smem_ptr", 0), Operand("", "src", 0),
               Operand("", "cp_size", p.cp_size), Operand("", "src_size", 0)>>)

cuda_cp_async_commit_group ==
    Function("cuda_cp_async_commit_group", "cp.async.commit_group;", <<>>, <<>>, <<>>)

\* the instruction text of the function generated for `groups`
WaitGroupTemplate(groups) == "cp.async.commit_group " \o ToString(groups) \o ";"

cuda_cp_async_wait_group(groups) ==
    Function("cuda_cp_async_wait_group_" \o ToString(groups), WaitGroupTemplate(groups),
             <<>>, <<>>, <<>>)

WaitGroupPasses == 10

cuda_cp_async_wait_all ==
    Function("cuda_cp_async_wait_all", "cp.async.wait_all;", <<>>, <<>>, <<>>)

----------------------------------------------------------------------------
(* Part III.c  mma.py: configurations and the generators                   *)

\* ScalarType(short_dtype).nbytes()
nbytes(short_dtype) ==
    CASE short_dtype \in {"f16", "bf16"} -> 2
      [] short_dtype \in {"f32", "tf32"} -> 4
      [] OTHER -> 1

\* mutant: the byte count is divided by the 32 lanes only
num_regs_PerLaneBytes(short_dtype, num_elements) ==
    LET num_bytes == nbytes(short_dtype) * num_elements
    IN  IF num_bytes % (4 * 32) # 0 THEN [ok |-> FALSE, regs |-> 0]
        ELSE [ok |-> TRUE, regs |-> num_bytes \div 32]

\* num_regs: ok is FALSE when the assertion fails
num_regs(short_dtype, num_elements) ==
    LET num_bytes == nbytes(short_dtype) * num_elements
    IN  IF num_bytes % (4 * 32) # 0 THEN [ok |-> FALSE, regs |-> 0]
        ELSE [ok |-> TRUE, regs |-> num_bytes \div (4 * 32)]

\* MmaConfig.__init__
MmaConfig(m, n, k, input_dtype, output_dtype, a_load_map, b_load_map, c_store_map) ==
    LET ra == num_regs(input_dtype, m * k)
        rb == num_regs(input_dtype, k * n)
        rc == num_regs(output_dtype, m * n)
    IN  [ok |-> ra.ok /\ rb.ok /\ rc.ok,
         m |-> m, n |-> n, k |-> k,
         input_dtype |-> input_dtype, output_dtype |-> output_dtype,
         a_load_map |-> a_load_map, b_load_map |-> b_load_map, c_store_map |-> c_store_map,
         a_elements |-> (m * k) \div 32, b_elements |-> (k * n) \div 32,
         c_elements |-> (m * n) \div 32,
         a_regs |-> ra.regs, b_regs |-> rb.regs, c_regs |-> rc.regs]

\* the dot-separated fields of MmaConfig.inst_name()
InstNameParts(c) ==
    <<"mma", "sync", "aligned",
      "m" \o ToString(c.m) \o "n" \o ToString(c.n) \o "k" \o ToString(c.k),
      "row", "col", c.output_dtype, c.input_dtype, c.input_dtype, c.output_dtype>>

inst_name(c) == Join(InstNameParts(c), ".")

\* inst_name.replace('.', '_')
inst_name_underscored(c) == Join(InstNameParts(c), "_")

Tm(kind, a, b) == <<kind, a, b>>

StoreMapC == <<Tm("row_repeat", 2, 1), Tm("row_spatial", 8, 4), Tm("row_repeat", 1, 2)>>

ConfigK8(input_dtype, output_dtype) ==
    MmaConfig(16, 8, 8, input_dtype, output_dtype,
              <<Tm("row_repeat", 2, 1), Tm("row_spatial", 8, 4), Tm("row_repeat", 1, 2)>>,
              <<Tm("col_spatial", 4, 8), Tm("col_repeat", 2, 1)>>,
              StoreMapC)

ConfigK16(input_dtype, output_dtype) ==
    MmaConfig(16, 8, 16, input_dtype, output_dtype,
              <<Tm("col_repeat", 2, 2), Tm("row_spatial", 8, 4), Tm("row_repeat", 1, 2)>>,
              <<Tm("col_repeat", 2, 1), Tm("col_spatial", 4, 8), Tm("col_repeat", 2, 1)>>,
              StoreMapC)

ConfigTf32K4 ==
    MmaConfig(16, 8, 4, "tf32", "f32",
              <<Tm("row_repeat", 2, 1), Tm("row_spatial", 8, 4)>>,
              <<Tm("col_spatial", 4, 8)>>,
              StoreMapC)

ConfigTf32K8 ==
    MmaConfig(16, 8, 8, "tf32", "f32",
              <<Tm("col_repeat", 2, 2), Tm("row_spatial", 8, 4)>>,
              <<Tm("col_repeat", 2, 1), Tm("col_spatial", 4, 8)>>,
              StoreMapC)

\* the entries of the pos-th mma_configs.update(...) of register_mma_configs
ConfigUpdate(pos) ==
    CASE pos = 0 -> <<[key |-> "m16n8k8_f16_f16", config |-> ConfigK8("f16", "f16")],
                      [key |-> "m16n8k16_f16_f16", config |-> ConfigK16("f16", "f16")]>>
      [] pos = 1 -> <<[key |-> "m16n8k8_f16_f32", config |-> ConfigK8("f16", "f32")],
                      [key |-> "m16n8k16_f16_f32", config |-> ConfigK16("f16", "f32")]>>
      [] pos = 2 -> <<[key |-> "m16n8k8_bf16_f32", config |-> ConfigK8("bf16", "f32")],
                      [key |-> "m16n8k16_bf16_f32", config |-> ConfigK16("bf16", "f32")]>>
      [] OTHER   -> <<[key |-> "m16n8k4_tf32_f32", config |-> ConfigTf32K4],
                      [key |-> "m16n8k8_tf32_f32", config |-> ConfigTf32K8]>>

ConfigUpdates == 4

\* dict.update: a present key keeps its place and takes the new value
RECURSIVE DictUpdate(_, _)
DictUpdate(d, entries) ==
    IF entries = <<>> THEN d
    ELSE LET e == Head(entries)
             d1 == IF \E n \in DOMAIN d : d[n].key = e.key
                   THEN [n \in DOMAIN d |-> IF d[n].key = e.key THEN e ELSE d[n]]
                   ELSE Append(d, e)
         IN  DictUpdate(d1, Tail(entries))

\* mutant: the B registers are listed before the A registers
MmaInputs_BFirst(c) ==
    [n \in 1 .. c.b_regs |-> Operand("r", "rb", n - 1)]
    \o [n \in 1 .. c.a_regs |-> Operand("r", "ra", n - 1)]

\* inputs=[('r', ra[i]) ...] + [('r', rb[i]) ...]
MmaInputs(c) ==
    [n \in 1 .. c.a_regs |-> Operand("r", "ra", n - 1)]
    \o [n \in 1 .. c.b_regs |-> Operand("r", "rb", n - 1)]

\* outputs=[('+r', rc[i]) ...]
MmaOutputs(c) == [n \in 1 .. c.c_regs |-> Operand("+r", "rc", n - 1)]

\* the placeholder numbers of the four operand groups of the template
MmaGroups(c) ==
    <<RangeSeq(0, c.c_regs),
      RangeSeq(c.c_regs, c.c_regs + c.a_regs),
      RangeSeq(c.c_regs + c.a_regs, c.c_regs + c.a_regs + c.b_regs),
      RangeSeq(0, c.c_regs)>>

\* the function register_mma_instructions builds for one configuration
cuda_mma(c) ==
    LET g == MmaGroups(c)
    IN  Function("cuda_" \o inst_name_underscored(c),
                 Join(<<inst_name(c),
                        "{" \o Placeholders(g[1]) \o "},",
                        "{" \o Placeholders(g[2]) \o "},",
                        "{" \o Placeholders(g[3]) \o "},",
                        "{" \o Placeholders(g[4]) \o "};">>, " "),
                 g, MmaOutputs(c), MmaInputs(c))

LdNums == <<1, 2, 4>>

\* mutant: every register count is given a name
resolve_ldmatrix_func_name_AnyNum(num, shared_space_addr, trans) ==
    [ok |-> TRUE,
     name |-> "ldmatrix_x" \o ToString(num)
                 \o (IF shared_space_addr THEN "_shared" ELSE "")
                 \o (IF trans THEN "_trans" ELSE "")]

resolve_ldmatrix_func_name(num, shared_space_addr, trans) ==
    IF num \notin {1, 2, 4} THEN [ok |-> FALSE, name |-> ""]
    ELSE [ok |-> TRUE,
          name |-> "ldmatrix_x" \o ToString(num)
                      \o (IF shared_space_addr THEN "_shared" ELSE "")
                      \o (IF trans THEN "_trans" ELSE "")]

\* the (num, trans, shared_space_addr) of the pos-th pass of the three loops
LdmatrixPass(pos) ==
    [num |-> LdNums[(pos \div 4) + 1],
     trans |-> ((pos \div 2) % 2) = 1,
     shared_space_addr |-> (pos % 2) = 1]

LdmatrixPasses == Len(LdNums) * 2 * 2

cuda_ldmatrix(p) ==
    Function("cuda_" \o resolve_ldmatrix_func_name(p.num, p.shared_space_addr, p.trans).name,
             "ldmatrix.sync.aligned.m8n8.x" \o ToString(p.num)
                 \o (IF p.trans THEN ".trans" ELSE "")
                 \o (IF p.shared_space_addr THEN ".shared" ELSE "")
                 \o ".b16 {" \o Placeholders(RangeSeq(0, p.num)) \o "}, [%"
                 \o ToString(p.num) \o "];",
             <<RangeSeq(0, p.num), <<p.num>>>>,
             [n \in 1 .. p.num |-> Operand("", "reg", n - 1)],
             <<Operand("", "smem", 0)>>)

----------------------------------------------------------------------------
(* Part III.d  the initialization phase                                    *)

\* the @initialize() functions of cp_async.py and mma.py
Generators ==
    {"register_cp_async", "register_cp_async_commit_group", "register_cp_async_wait_group",
     "register_cp_async_wait_all", "register_mma_configs", "register_mma_instructions",
     "register_ldmatrix_instructions"}

NoLoader == [current |-> "none", pos |-> 0, done |-> {}]

\* the generator leaves pass `loader.pos` of `total`
Advance(total) ==
    IF loader.pos + 1 >= total
    THEN [current |-> "none", pos |-> 0, done |-> loader.done \cup {loader.current}]
    ELSE [loader EXCEPT !.pos = loader.pos + 1]

\* one pass of a generator that registers func, or registers nothing (skip)
RegisterStep(skip, func, total) ==
    LET r == IF skip THEN [ok |-> TRUE, reg |-> registry]
             ELSE register_primitive_function(registry, func.name, func)
    IN  /\ registry' = r.reg
        /\ loader' = IF r.ok THEN Advance(total) ELSE loader
        /\ pc' = IF ~r.ok THEN "dup_error"
                 ELSE IF Advance(total).done = Generators THEN "ready" ELSE "import"

\* an @initialize() function starts to run; register_mma_instructions iterates
\* over mma_configs, which register_mma_configs fills just above it
StartGenerator ==
    /\ pc = "import"
    /\ loader.current = "none"
    /\ \E g \in Generators \ loader.done :
          /\ g = "register_mma_instructions" => "register_mma_configs" \in loader.done
          /\ loader' = [loader EXCEPT !.current = g]
    /\ UNCHANGED <<pc, registry, mma_configs, last, hw, lowerVars>>

register_cp_async ==
    /\ pc = "import"
    /\ loader.current = "register_cp_async"
    /\ LET p == CpAsyncPass(loader.pos)
       IN  RegisterStep(CpAsyncSkipped(p), cuda_cp_async(p), CpAsyncPasses)
    /\ UNCHANGED <<mma_configs, last, hw, lowerVars>>

register_cp_async_commit_group ==
    /\ pc = "import"
    /\ loader.current = "register_cp_async_commit_group"
    /\ RegisterStep(FALSE, cuda_cp_async_commit_group, 1)
    /\ UNCHANGED <<mma_configs, last, hw, lowerVars>>

register_cp_async_wait_group ==
    /\ pc = "import"
    /\ loader.current = "register_cp_async_wait_group"
    /\ RegisterStep(FALSE, cuda_cp_async_wait_group(loader.pos), WaitGroupPasses)
    /\ UNCHANGED <<mma_configs, last, hw, lowerVars>>

register_cp_async_wait_all ==
    /\ pc = "import"
    /\ loader.current = "register_cp_async_wait_all"
    /\ RegisterStep(FALSE, cuda_cp_async_wait_all, 1)
    /\ UNCHANGED <<mma_configs, last, hw, lowerVars>>

register_mma_configs ==
    /\ pc = "import"
    /\ loader.current = "register_mma_configs"
    /\ mma_configs' = DictUpdate(mma_configs, ConfigUpdate(loader.pos))
    /\ loader' = Advance(ConfigUpdates)
    /\ pc' = IF Advance(ConfigUpdates).done = Generators THEN "ready" ELSE "import"
    /\ UNCHANGED <<registry, last, hw, lowerVars>>

register_mma_instructions ==
    /\ pc = "import"
    /\ loader.current = "register_mma_instructions"
    /\ RegisterStep(FALSE, cuda_mma(mma_configs[loader.pos + 1].config), Len(mma_configs))
    /\ UNCHANGED <<mma_configs, last, hw, lowerVars>>

register_ldmatrix_instructions ==
    /\ pc = "import"
    /\ loader.current = "register_ldmatrix_instructions"
    /\ RegisterStep(FALSE, cuda_ldmatrix(LdmatrixPass(loader.pos)), LdmatrixPasses)
    /\ UNCHANGED <<mma_configs, last, hw, lowerVars>>

----------------------------------------------------------------------------
(* Part III.e  the call constructors                                       *)

\* mutant: the 'global' cache level is accepted with every copy size
cp_async_AnySizeGlobal(dst, src, cp_size, src_size, cache_level, prefetch_bytes) ==
    IF cp_size \notin {4, 8, 16} THEN ValueError
    ELSE IF prefetch_bytes \notin {0, 64, 128, 256} THEN ValueError
    ELSE IF cache_level \notin {"global", "always"} THEN ValueError
    ELSE call_cuda(resolve_name_cp_async(cp_size, cache_level, prefetch_bytes),
                   <<dst, src, IF src_size = <<>> THEN cp_size ELSE src_size[1]>>)

\* cp_async; an omitted src_size (None) is <<>>, a given one is <<src_size>>
cp_async(dst, src, cp_size, src_size, cache_level, prefetch_bytes) ==
    IF cp_size \notin {4, 8, 16} THEN ValueError
    ELSE IF prefetch_bytes \notin {0, 64, 128, 256} THEN ValueError
    ELSE IF cache_level \notin {"global", "always"} THEN ValueError
    ELSE IF cache_level = "global" /\ cp_size # 16 THEN ValueError
    ELSE call_cuda(resolve_name_cp_async(cp_size, cache_level, prefetch_bytes),
                   <<dst, src, IF src_size = <<>> THEN cp_size ELSE src_size[1]>>)

cp_async_commit_group == call_cuda("cp_async_commit_group", <<>>)

\* mutant: the upper bound is inclusive
cp_async_wait_group_Inclusive(n) ==
    IF ~(0 <= n /\ n <= 10) THEN ValueError
    ELSE call_cuda("cp_async_wait_group_" \o ToString(n), <<>>)

cp_async_wait_group(n) ==
    IF ~(0 <= n /\ n < 10) THEN ValueError
    ELSE call_cuda("cp_async_wait_group_" \o ToString(n), <<>>)

cp_async_wait_all == call_cuda("cp_async_wait_all", <<>>)

mma_sync(config, a_addr, b_addr, c_addr) ==
    call_cuda(inst_name_underscored(config), <<a_addr, b_addr, c_addr>>)

ldmatrix(regs, smem_addr, shared_space_addr, trans) ==
    LET func_name == resolve_ldmatrix_func_name(Len(regs), shared_space_addr, trans)
    IN  IF ~func_name.ok THEN ValueError
        ELSE call_cuda(func_name.name, regs \o <<smem_addr>>)

\* the pending-group machine of one issuing context:
\*   uncommitted  copies issued since the previous commit
\*   groups       sizes of the committed groups still outstanding, oldest first
\*   completed    copies whose group has completed
\*   issued, commits  totals;  waitfor  the N of the wait the context is blocked in
HwIdle ==
    [uncommitted |-> 0, groups |-> <<>>, completed |-> 0, issued |-> 0, commits |-> 0,
     waitfor |-> 0]

\* the record of the latest constructor call: its arguments, what it returned or
\* raised, the machine state at the call, and whether the call has been executed
CallRecord(api, input, r) ==
    [api |-> api, input |-> input, ok |-> r.ok, err |-> r.err, func_name |-> r.func_name,
     args |-> r.args, pre |-> hw, executed |-> FALSE]

NoCall ==
    [api |-> "none", input |-> <<>>, ok |-> FALSE, err |-> "none", func_name |-> "",
     args |-> <<>>, pre |-> HwIdle, executed |-> FALSE]

\* arguments the callers try
CpSizeArgs == {4, 8, 12, 16}

SrcSizeArgs == {<<>>, <<4>>}

CacheLevelArgs == {"always", "global", "shared"}

PrefetchArgs == {0, 64, 100, 128, 256}

WaitArgs == {-1, 0, 1, 2, 9, 10}

RegCountArgs == 0 .. 5

MArgs == {8, 16}

NArgs == {8}

KArgs == {2, 4, 8, 16}

Regs(num) == [n \in 1 .. num |-> "reg" \o ToString(n - 1)]

\* a constructor returned r: a call is built and handed to the issuing context,
\* or the constructor raised and nothing is built
Constructed(api, input, r) ==
    /\ last' = CallRecord(api, input, r)
    /\ pc' = IF r.ok THEN "call" ELSE "returned"
    /\ UNCHANGED <<registry, mma_configs, loader, hw, lowerVars>>

CallCpAsync ==
    /\ pc = "ready"
    /\ \E cp_size \in CpSizeArgs, src_size \in SrcSizeArgs,
          cache_level \in CacheLevelArgs, prefetch_bytes \in PrefetchArgs :
          LET r == cp_async("dst", "src", cp_size, src_size, cache_level, prefetch_bytes)
          IN  /\ r.ok => hw.issued < MaxCopies
              /\ Constructed("cp_async",
                             [cp_size |-> cp_size, src_size |-> src_size,
                              cache_level |-> cache_level, prefetch_bytes |-> prefetch_bytes],
                             r)

CallCommitGroup ==
    /\ pc = "ready"
    /\ hw.commits < MaxCommits
    /\ Constructed("cp_async_commit_group", <<>>, cp_async_commit_group)

CallWaitGroup ==
    /\ pc = "ready"
    /\ \E n \in WaitArgs : Constructed("cp_async_wait_group", [n |-> n], cp_async_wait_group(n))

CallWaitAll ==
    /\ pc = "ready"
    /\ Constructed("cp_async_wait_all", <<>>, cp_async_wait_all)

CallMmaSync ==
    /\ pc = "ready"
    /\ \E pos \in DOMAIN mma_configs :
          Constructed("mma_sync", [key |-> mma_configs[pos].key],
                      mma_sync(mma_configs[pos].config, "a", "b", "c"))

CallLdmatrix ==
    /\ pc = "ready"
    /\ \E num \in RegCountArgs, shared_space_addr \in BOOLEAN, trans \in BOOLEAN :
          Constructed("ldmatrix",
                      [num |-> num, shared_space_addr |-> shared_space_addr, trans |-> trans],
                      ldmatrix(Regs(num), "smem", shared_space_addr, trans))

\* MmaConfig(m, n, k, input_dtype, output_dtype, ...) built by a caller
NewMmaConfig ==
    /\ pc = "ready"
    /\ \E m \in MArgs, n \in NArgs, k \in KArgs,
          input_dtype \in {"f16", "bf16", "tf32"}, output_dtype \in {"f16", "f32"} :
          LET c == MmaConfig(m, n, k, input_dtype, output_dtype, <<>>, <<>>, <<>>)
          IN  last' = [NoCall EXCEPT !.api = "MmaConfig", !.input = c, !.ok = c.ok,
                                     !.err = IF c.ok THEN "none" ELSE "AssertionError",
                                     !.pre = hw]
    /\ pc' = "returned"
    /\ UNCHANGED <<registry, mma_configs, loader, hw, lowerVars>>

----------------------------------------------------------------------------
(* Part III.f  the issuing context runs the called device function         *)

\* the instruction a template is, by the PTX grammar of the cp.async family
Decode(template) ==
    IF template = "cp.async.commit_group;" THEN [op |-> "commit_group", n |-> 0]
    ELSE IF template = "cp.async.wait_all;" THEN [op |-> "wait_all", n |-> 0]
    ELSE IF \E n \in 0 .. 9 : template = "cp.async.wait_group " \o ToString(n) \o ";"
    THEN [op |-> "wait_group",
          n |-> CHOOSE n \in 0 .. 9 : template = "cp.async.wait_group " \o ToString(n) \o ";"]
    ELSE IF \E n \in 0 .. 9 : template = "cp.async.commit_group " \o ToString(n) \o ";"
    THEN [op |-> "commit_group_with_operand",
          n |-> CHOOSE n \in 0 .. 9 : template = "cp.async.commit_group " \o ToString(n) \o ";"]
    ELSE IF \E c \in {"ca", "cg"}, l2 \in {"", ".L2::64B", ".L2::128B", ".L2::256B"} :
               template = "cp.async." \o c \o ".shared.global" \o l2 \o " [%0], [%1], %2, %3;"
    THEN [op |-> "cp_async", n |-> 0]
    ELSE [op |-> "other", n |-> 0]

\* the instruction of the function the pending call names
Called == Decode(registry[last.func_name].template)

Running == pc = "call" /\ last.func_name \in DOMAIN registry

Returned == [last EXCEPT !.executed = TRUE]

Commit(h) ==
    [h EXCEPT !.groups = Append(h.groups, h.uncommitted), !.uncommitted = 0,
              !.commits = h.commits + 1]

\* cp.async: one more copy in flight, not yet in a group
ExecCpAsync ==
    /\ Running
    /\ Called.op = "cp_async"
    /\ hw' = [hw EXCEPT !.uncommitted = hw.uncommitted + 1, !.issued = hw.issued + 1]
    /\ last' = Returned
    /\ pc' = "returned"
    /\ UNCHANGED <<registry, mma_configs, loader, lowerVars>>

\* cp.async.commit_group: the copies issued since the previous commit become a group
ExecCommitGroup ==
    /\ Running
    /\ Called.op = "commit_group"
    /\ hw' = Commit(hw)
    /\ last' = Returned
    /\ pc' = "returned"
    /\ UNCHANGED <<registry, mma_configs, loader, lowerVars>>

\* cp.async.wait_group N: the context blocks until at most N groups are outstanding;
\* cp.async.wait_all: cp.async.commit_group followed by cp.async.wait_group 0
ExecWait ==
    /\ Running
    /\ Called.op \in {"wait_group", "wait_all"}
    /\ hw' = IF Called.op = "wait_group"
             THEN [hw EXCEPT !.waitfor = Called.n]
             ELSE [(IF hw.uncommitted > 0 THEN Commit(hw) ELSE hw) EXCEPT !.waitfor = 0]
    /\ pc' = "blocked"
    /\ UNCHANGED <<last, registry, mma_configs, loader, lowerVars>>

\* cp.async.commit_group takes no operand: the assembler rejects the kernel
ExecOperandRejected ==
    /\ Running
    /\ Called.op = "commit_group_with_operand"
    /\ pc' = "asm_error"
    /\ UNCHANGED <<hw, last, registry, mma_configs, loader, lowerVars>>

\* ... or a tool chain that drops the operand assembles a commit
ExecOperandDropped ==
    /\ Running
    /\ Called.op = "commit_group_with_operand"
    /\ hw.commits < MaxCommits
    /\ hw' = Commit(hw)
    /\ last' = Returned
    /\ pc' = "returned"
    /\ UNCHANGED <<registry, mma_configs, loader, lowerVars>>

\* mma.sync and ldmatrix do not touch the pending groups
ExecOther ==
    /\ Running
    /\ Called.op = "other"
    /\ last' = Returned
    /\ pc' = "returned"
    /\ UNCHANGED <<hw, registry, mma_configs, loader, lowerVars>>

\* the blocked context resumes once at most waitfor groups are outstanding
Resume ==
    /\ pc = "blocked"
    /\ Len(hw.groups) <= hw.waitfor
    /\ hw' = [hw EXCEPT !.waitfor = 0]
    /\ last' = Returned
    /\ pc' = "returned"
    /\ UNCHANGED <<registry, mma_configs, loader, lowerVars>>

\* the caller is done with the call it made and goes on to the next
Forget ==
    /\ pc = "returned"
    /\ last' = NoCall
    /\ pc' = "ready"
    /\ UNCHANGED <<hw, registry, mma_configs, loader, lowerVars>>

\* the copy engine completes the oldest outstanding group
HwComplete ==
    /\ pc \in {"ready", "call", "blocked", "returned"}
    /\ hw.groups # <<>>
    /\ hw' = [hw EXCEPT !.groups = Tail(hw.groups),
                        !.completed = hw.completed + Head(hw.groups)]
    /\ UNCHANGED <<pc, last, registry, mma_configs, loader, lowerVars>>

----------------------------------------------------------------------------
(* Part IV  the lowering call and the run of its result                    *)

InitLower ==
    /\ pc = "lower"
    /\ \E c \in Cases :
          /\ expr = c.e
          /\ seed \in c.seeds
          /\ input_map \in InputMaps(c.e)
    /\ stmts = <<>>
    /\ value = Constant(0)
    /\ new_buffer_map = EmptyMap
    /\ error = "none"
    /\ stack = <<>>
    /\ env = EmptyMap
    /\ mem = EmptyMap
    /\ nstores = EmptyMap
    /\ nupdates = 0
    /\ registry = EmptyMap
    /\ mma_configs = <<>>
    /\ loader = NoLoader
    /\ last = NoCall
    /\ hw = HwIdle

\* stmt, value, new_buffer_map = expand_loop(expr, input_map)
ExpandLoop ==
    /\ pc = "lower"
    /\ LET r == expand_loop(expr, input_map)
       IN  /\ error' = r.err
           /\ stmts' = r.stmt
           /\ value' = r.value
           /\ new_buffer_map' = r.new_buffer_map
           /\ pc' = IF r.err = "none" THEN "exec" ELSE "failed"
           /\ stack' = IF r.err = "none" THEN <<Frame("top", r.stmt, NoVar, 0)>> ELSE <<>>
    /\ env' = CallerEnv(expr, input_map)
    /\ mem' = CallerMem(expr, input_map)
    /\ UNCHANGED <<expr, input_map, seed, nstores, nupdates, primVars>>

\* the modules of the primitives are about to be imported
InitPrim ==
    /\ pc = "import"
    /\ registry = EmptyMap
    /\ mma_configs = <<>>
    /\ loader = NoLoader
    /\ last = NoCall
    /\ hw = HwIdle
    /\ expr = Constant(0)
    /\ input_map = EmptyMap
    /\ seed = <<0>>
    /\ stmts = <<>>
    /\ value = Constant(0)
    /\ new_buffer_map = EmptyMap
    /\ error = "none"
    /\ stack = <<>>
    /\ env = EmptyMap
    /\ mem = EmptyMap
    /\ nstores = EmptyMap
    /\ nupdates = 0

Init == InitLower \/ InitPrim

Next ==
    \/ ExpandLoop \/ ExecStmt \/ ExecLeave
    \/ StartGenerator
    \/ register_cp_async \/ register_cp_async_commit_group
    \/ register_cp_async_wait_group \/ register_cp_async_wait_all
    \/ register_mma_configs \/ register_mma_instructions
    \/ register_ldmatrix_instructions
    \/ CallCpAsync \/ CallCommitGroup \/ CallWaitGroup \/ CallWaitAll
    \/ CallMmaSync \/ CallLdmatrix \/ NewMmaConfig
    \/ ExecCpAsync \/ ExecCommitGroup \/ ExecWait
    \/ ExecOperandRejected \/ ExecOperandDropped \/ ExecOther
    \/ Resume \/ Forget \/ HwComplete

Spec == Init /\ [][Next]_vars

----------------------------------------------------------------------------
(* Properties of the lowering                                              *)

Last(ss) == ss[Len(ss)]

\* every statement of a statement sequence, at any depth
RECURSIVE AllStmts(_)
AllStmts(ss) ==
    IF ss = <<>> THEN {}
    ELSE {Head(ss)}
         \cup (IF Head(ss).s \in {"ForStmt", "IfStmt"} THEN AllStmts(Head(ss).body) ELSE {})
         \cup AllStmts(Tail(ss))

\* the innermost body of the loop nest ss over (axes, shape), outermost dimension
\* first and nothing else at the outer levels; <<>> when ss is no such nest
RECURSIVE NestBody(_, _, _)
NestBody(ss, axes, shape) ==
    IF shape = <<>> THEN ss
    ELSE IF /\ Len(ss) = 1
            /\ ss[1].s = "ForStmt"
            /\ ss[1].loop_var = Head(axes)
            /\ ss[1].extent = Head(shape)
         THEN NestBody(ss[1].body, Tail(axes), Tail(shape))
         ELSE <<>>

\* ss is the loop nest of grid node g, ending in the store of g's element
IsGridNest(ss, g) ==
    LET body == NestBody(ss, g.compute.axes, g.compute.shape)
    IN  /\ body # <<>>
        /\ Last(body).s = "BufferStoreStmt"
        /\ Last(body).buf.name = g.name
        /\ Last(body).indices = g.compute.axes

GridNodes(e) == {x \in NodesOf(e) : x.k = "TensorNode" /\ x.compute.c = "GridCompute"}

IsGridRoot == expr.k = "TensorNode" /\ expr.compute.c = "GridCompute"

IsReduceRoot == expr.k = "ScalarNode" /\ expr.compute.c = "ReduceCompute"

IsArgRoot == expr.k = "ScalarNode" /\ expr.compute.c = "ArgReduceCompute"

Lowered == pc \in {"exec", "done"}

\* the coordinates of buffer buf that have been stored to
Written(buf) == {key[2] : key \in {x \in DOMAIN nstores : x[1] = buf}}

\* C1: the statements emitted for a Grid Compute store f(i0,...,ik) to every
\* coordinate of the product of the dimension ranges exactly once and to no other
\* coordinate, and the loops are nested outermost dimension first.  Checked on the
\* run of the whole emitted program for the root node, and on the shape of the
\* emitted loop nest for every Grid Compute node of the expression.
C1_GridStoresEachPointOnce ==
    /\ Lowered =>
          \A g \in GridNodes(expr) :
              \/ g = expr /\ IsGridNest(stmts, g)
              \/ \E s \in AllStmts(stmts) : IsGridNest(<<s>>, g)
              \/ \E s \in AllStmts(stmts) : s.s = "ForStmt" /\ IsGridNest(s.body, g)
    /\ (Lowered /\ IsGridRoot) =>
          LET gc  == expr.compute
              pts == IndexPoints(gc.shape)
          IN  /\ \A key \in DOMAIN nstores :
                    key[1] = value =>
                        /\ key[2] \in pts
                        /\ nstores[key] = 1
                        /\ mem[value][key[2]] = Denote(gc.value, Bind(EmptyMap, gc.axes, key[2]))
              /\ pc = "done" => Written(value) = pts

C1_Witness ==
    /\ pc = "done"
    /\ IsGridRoot
    /\ expr.compute.shape = <<1, 2>>
    /\ expr.compute.value.k = "ScalarNode"
    /\ Written(value) = {<<0, 0>>, <<0, 1>>}

\* C2: the result handle of a Reduce Compute is the sum of the values (sum) or the
\* sum divided by the number of reduced elements (mean); inside a Grid Compute the
\* accumulator is the identity again whenever the reduction loops are entered, and
\* every grid point gets its own reduction; a node in input_map also has the
\* finalized value assigned to its mapped variable.
C2_ReduceResult ==
    /\ (pc = "done" /\ IsReduceRoot) =>
          /\ Eval(value, env, mem) = Denote(expr, EmptyMap)
          /\ expr.name \in DOMAIN input_map =>
                env[input_map[expr.name]] = Denote(expr, EmptyMap)
    /\ (Lowered /\ IsGridRoot /\ expr.compute.value.k = "ScalarNode"
               /\ expr.compute.value.compute.c = "ReduceCompute") =>
          LET gc == expr.compute
              sc == gc.value.compute
          IN  /\ \A pt \in Written(value) :
                    mem[value][pt] = Denote(gc.value, Bind(EmptyMap, gc.axes, pt))
              /\ (/\ pc = "exec"
                  /\ Top.kind = "for"
                  /\ Top.var = sc.axes[1]
                  /\ Top.iter = 0
                  /\ Top.i = 1) => env[new_buffer_map[gc.value.name]] = 0

C2_Witness ==
    /\ pc = "done"
    /\ IsGridRoot
    /\ expr.compute.value.k = "ScalarNode"
    /\ expr.compute.value.compute.c = "ReduceCompute"
    /\ expr.compute.value.compute.reduce_operation = "avg"
    /\ expr.compute.shape = <<2, 2>>
    /\ expr.compute.value.compute.shape = <<2>>
    /\ \E p \in Written(value), q \in Written(value) : mem[value][p] # mem[value][q]

\* the best-value accumulator of a root arg-reduce: the variable declared first
ArgBestValue == stmts[1].var

\* C3: an arg-max reports the smallest index at which the maximum occurs; for the
\* values [3, 5, 5, 2] the index is 1; at the end of every loop iteration, once an
\* update has happened, the best value is the value at the best index.
C3_ArgMaxFirstOccurrence ==
    (Lowered /\ IsArgRoot) =>
        LET shape == <<expr.compute.extent>>
        IN  /\ pc = "done" =>
                  /\ env[value] = Denote(expr, EmptyMap)
                  /\ \A n \in 0 .. (expr.compute.extent - 1) :
                        /\ InputElement("A", shape, <<n>>) <= InputElement("A", shape, <<env[value]>>)
                        /\ n < env[value] =>
                              InputElement("A", shape, <<n>>) < InputElement("A", shape, <<env[value]>>)
                  /\ seed = <<3, 5, 5, 2>> => env[value] = 1
            /\ (/\ nupdates > 0
                /\ \/ pc = "done"
                   \/ Top.kind = "for" /\ Top.i > Len(Top.stmts)) =>
                  env[ArgBestValue] = InputElement("A", shape, <<env[value]>>)

C3_Witness ==
    /\ pc = "done"
    /\ IsArgRoot
    /\ seed = <<3, 5, 5, 2>>
    /\ env[value] = 1
    /\ nupdates = 2

HasUnsupported(e) == \E x \in NodesOf(e) : x.compute.c = "CustomCompute"

HasMissingLeaf(e, imap) ==
    \E x \in NodesOf(e) : x.compute.c = "None" /\ x.name \notin DOMAIN imap

\* C4 as claimed: an unsupported compute variant and a leaf missing from input_map
\* both make the lowering fail with the unsupported-pattern error.
C4_SameErrorKind ==
    (pc # "lower" /\ (HasUnsupported(expr) \/ HasMissingLeaf(expr, input_map))) =>
        /\ pc = "failed"
        /\ error = "NotImplementedError"
        /\ stmts = <<>>

\* C4 as amended: the lowering fails, returning no statements, exactly when the
\* expression holds an unsupported compute variant or a leaf missing from
\* input_map; the first is raised as NotImplementedError, the second as KeyError.
C4_FailureKinds ==
    pc # "lower" =>
        /\ (pc = "failed") = (HasUnsupported(expr) \/ HasMissingLeaf(expr, input_map))
        /\ (pc = "failed") = (error # "none")
        /\ pc = "failed" => stmts = <<>> /\ new_buffer_map = EmptyMap
        /\ error \in {"none", "NotImplementedError", "KeyError"}
        /\ error = "NotImplementedError" => HasUnsupported(expr)
        /\ error = "KeyError" => HasMissingLeaf(expr, input_map)
        /\ (HasUnsupported(expr) /\ ~HasMissingLeaf(expr, input_map)) =>
              error = "NotImplementedError"
        /\ (HasMissingLeaf(expr, input_map) /\ ~HasUnsupported(expr)) => error = "KeyError"

C4_Witness ==
    /\ pc = "failed"
    /\ error = "KeyError"
    /\ IsGridRoot
    /\ ~HasUnsupported(expr)

Range(f) == {f[x] : x \in DOMAIN f}

\* C5 as claimed: a store emitted for a Grid Compute node in input_map targets the
\* mapped variable and the node is no key of new_buffer_map; a store emitted for
\* any other Grid Compute node targets the buffer new_buffer_map returns for it.
C5_StoresTargetReturnedBuffers ==
    Lowered =>
        \A s \in {x \in AllStmts(stmts) : x.s = "BufferStoreStmt"} :
            /\ IF s.buf.name \in DOMAIN input_map
               THEN s.buf = input_map[s.buf.name] /\ s.buf.name \notin DOMAIN new_buffer_map
               ELSE s.buf.name \in DOMAIN new_buffer_map /\ s.buf = new_buffer_map[s.buf.name]
            /\ s.buf \in Range(input_map) \cup Range(new_buffer_map)

----------------------------------------------------------------------------
(* Properties of the primitives                                            *)

CpAsyncAccepts(i) ==
    /\ i.cp_size \in {4, 8, 16}
    /\ i.prefetch_bytes \in {0, 64, 128, 256}
    /\ i.cache_level \in {"always", "global"}
    /\ i.cache_level = "global" => i.cp_size = 16

\* C6: cp_async returns a call exactly when cp_size is 4, 8 or 16, prefetch_bytes is
\* 0, 64, 128 or 256, cache_level is 'always' or 'global', and 'global' comes with
\* cp_size 16; any other combination raises and builds no call; (16, 'global') is
\* accepted, (8, 'global') and (4, prefetch 100) are rejected; an omitted src_size
\* is passed as cp_size.
C6_CpAsyncValidation ==
    last.api = "cp_async" =>
        LET i == last.input
        IN  /\ last.ok = CpAsyncAccepts(i)
            /\ ~last.ok => /\ last.err = "ValueError"
                           /\ last.func_name = "" /\ last.args = <<>>
                           /\ pc = "returned" /\ ~last.executed
            /\ last.ok => /\ last.err = "none"
                          /\ last.func_name =
                                "cuda_" \o resolve_name_cp_async(i.cp_size, i.cache_level,
                                                                 i.prefetch_bytes)
                          /\ Len(last.args) = 3
                          /\ last.args[3] = IF i.src_size = <<>> THEN i.cp_size
                                            ELSE i.src_size[1]
            /\ (i.cp_size = 16 /\ i.cache_level = "global"
                /\ i.prefetch_bytes \in {0, 64, 128, 256}) => last.ok
            /\ (i.cp_size = 8 /\ i.cache_level = "global") => ~last.ok
            /\ (i.cp_size = 4 /\ i.prefetch_bytes = 100) => ~last.ok

C6_Witness ==
    /\ last.api = "cp_async"
    /\ last.ok
    /\ last.input.cp_size = 16
    /\ last.input.cache_level = "global"
    /\ last.input.src_size = <<>>
    /\ last.args[3] = 16
    /\ last.executed

WaitGroupName(n) == "cuda_cp_async_wait_group_" \o ToString(n)

\* C7 as claimed: for every N in 0..9 the function registered under
\* cuda_cp_async_wait_group_N is the wait instruction for N; once an accepted
\* cp_async_wait_group(N) has been executed at most N committed groups are
\* outstanding, and the call has closed no group.
C7_WaitGroupWaits ==
    /\ \A n \in 0 .. 9 :
          WaitGroupName(n) \in DOMAIN registry =>
              Decode(registry[WaitGroupName(n)].template) = [op |-> "wait_group", n |-> n]
    /\ (last.api = "cp_async_wait_group" /\ last.ok) =>
          /\ pc # "asm_error"
          /\ last.executed => /\ Len(hw.groups) <= last.input.n
                              /\ hw.commits = last.pre.commits

\* exactly one group is outstanding when the call is made, holding every copy issued
OneGroupOutstanding(h) ==
    /\ Len(h.groups) = 1
    /\ h.uncommitted = 0
    /\ h.issued >= 1
    /\ h.completed + h.groups[1] = h.issued

\* C8 as claimed: with exactly one group outstanding, cp_async_wait_group(0) and
\* cp_async_wait_all() both end with no pending group and every issued copy
\* complete.
C8_WaitZeroIsWaitAll ==
    (/\ \/ last.api = "cp_async_wait_all"
        \/ last.api = "cp_async_wait_group" /\ last.input = [n |-> 0]
     /\ last.ok
     /\ OneGroupOutstanding(last.pre)) =>
        /\ pc # "asm_error"
        /\ last.executed => /\ hw.groups = <<>>
                            /\ hw.uncommitted = 0
                            /\ hw.completed = hw.issued

MmaFuncName(c) == "cuda_" \o inst_name_underscored(c)

\* the AsmStmt operand list placeholders count through: outputs, then inputs
AsmOperands(f) == f.outputs \o f.inputs

\* the placeholders of group g, in order, name the registers base[0], base[1], ...
BindsTo(f, g, label, base) ==
    \A n \in DOMAIN g :
        /\ g[n] + 1 \in DOMAIN AsmOperands(f)
        /\ AsmOperands(f)[g[n] + 1] = Operand(label, base, n - 1)

\* the registry and mma_configs change while pc = "import" only, and every later
\* state follows one with pc = "ready": what holds of them there holds from then on
\*
\* C9: for every configuration of mma_configs the generated template lists the C
\* registers, then the A registers, then the B registers (and C again as the
\* accumulator), with placeholders 0..c_regs-1, c_regs..c_regs+a_regs-1 and
\* c_regs+a_regs..c_regs+a_regs+b_regs-1; the ranges are disjoint and contiguous
\* and placeholder i is the i-th entry of outputs (rc) followed by inputs (ra, rb).
C9_MmaOperandOrder ==
    pc \in {"import", "ready"} =>
    /\ \A pos \in DOMAIN mma_configs :
          LET c == mma_configs[pos].config
          IN  MmaFuncName(c) \in DOMAIN registry =>
                  LET f == registry[MmaFuncName(c)]
                      g == f.groups
                  IN  /\ Len(g) = 4
                      /\ c.c_regs > 0 /\ c.a_regs > 0 /\ c.b_regs > 0
                      /\ g[1] \o g[2] \o g[3] =
                            RangeSeq(0, c.c_regs + c.a_regs + c.b_regs)
                      /\ Len(g[1]) = c.c_regs /\ Len(g[2]) = c.a_regs /\ Len(g[3]) = c.b_regs
                      /\ g[4] = g[1]
                      /\ Len(AsmOperands(f)) = c.c_regs + c.a_regs + c.b_regs
                      /\ BindsTo(f, g[1], "+r", "rc")
                      /\ BindsTo(f, g[2], "r", "ra")
                      /\ BindsTo(f, g[3], "r", "rb")
    /\ "cuda_mma_sync_aligned_m16n8k8_row_col_f16_f16_f16_f16" \in DOMAIN registry =>
          registry["cuda_mma_sync_aligned_m16n8k8_row_col_f16_f16_f16_f16"].template =
             "mma.sync.aligned.m16n8k8.row.col.f16.f16.f16.f16 {%0, %1}, {%2, %3}, {%4}, {%0, %1};"
    /\ "cuda_mma_sync_aligned_m16n8k16_row_col_f32_f16_f16_f32" \in DOMAIN registry =>
          registry["cuda_mma_sync_aligned_m16n8k16_row_col_f32_f16_f16_f32"].template =
             "mma.sync.aligned.m16n8k16.row.col.f32.f16.f16.f32 {%0, %1, %2, %3}, {%4, %5, %6, %7}, {%8, %9}, {%0, %1, %2, %3};"

C9_Witness ==
    /\ pc = "returned"
    /\ last.api = "mma_sync"
    /\ last.executed
    /\ last.func_name = "cuda_mma_sync_aligned_m16n8k16_row_col_f32_f16_f16_f32"
    /\ Len(mma_configs) = 8
    /\ \A pos \in DOMAIN mma_configs : MmaFuncName(mma_configs[pos].config) \in DOMAIN registry

BitsPerElement(short_dtype) == 8 * nbytes(short_dtype)

\* an operand of count elements of dtype takes regs registers per lane
RegistersAreBitsOver1024(dtype, count, regs) == regs * (32 * 32) = BitsPerElement(dtype) * count

\* C10 as claimed: num_regs is total_bits / (32 * 32), and it is 1 for 128 elements
\* of 16 bits.
C10_OneRegisterFor128Halves ==
    (last.api = "MmaConfig" /\ last.ok) =>
        LET c == last.input
        IN  /\ RegistersAreBitsOver1024(c.input_dtype, c.m * c.k, c.a_regs)
            /\ (c.m * c.k = 128 /\ BitsPerElement(c.input_dtype) = 16) => c.a_regs = 1

Divisible(dtype, count) == (BitsPerElement(dtype) * count) % (32 * 32) = 0

\* a configuration is built exactly when the bit count of each operand is a
\* multiple of 32 * 32
MmaConfigBuiltIffDivisible ==
    last.api = "MmaConfig" =>
        LET c == last.input
        IN  last.ok = (/\ Divisible(c.input_dtype, c.m * c.k)
                       /\ Divisible(c.input_dtype, c.k * c.n)
                       /\ Divisible(c.output_dtype, c.m * c.n))

\* C10 as amended: when the bit count of an operand is a multiple of 32 * 32,
\* num_regs is total_bits / (32 * 32) for each operand of a configuration, which
\* is 2 for 128 elements of 16 bits; otherwise the configuration is not built.
C10_RegistersPerOperand ==
    /\ MmaConfigBuiltIffDivisible
    /\ (last.api = "MmaConfig" /\ last.ok) =>
        LET c == last.input
        IN  /\ RegistersAreBitsOver1024(c.input_dtype, c.m * c.k, c.a_regs)
            /\ RegistersAreBitsOver1024(c.input_dtype, c.k * c.n, c.b_regs)
            /\ RegistersAreBitsOver1024(c.output_dtype, c.m * c.n, c.c_regs)
            /\ (c.m * c.k = 128 /\ BitsPerElement(c.input_dtype) = 16) => c.a_regs = 2
            /\ (c.k * c.n = 128 /\ BitsPerElement(c.input_dtype) = 16) => c.b_regs = 2
            /\ (c.m * c.n = 128 /\ BitsPerElement(c.output_dtype) = 16) => c.c_regs = 2

C10_Witness ==
    /\ last.api = "MmaConfig"
    /\ last.ok
    /\ last.input.m * last.input.k = 128
    /\ last.input.input_dtype = "f16"
    /\ last.input.a_regs = 2

LdmatrixFuncName(num, shared_space_addr, trans) ==
    "cuda_ldmatrix_x" \o ToString(num) \o (IF shared_space_addr THEN "_shared" ELSE "")
        \o (IF trans THEN "_trans" ELSE "")

LdmatrixNames ==
    {LdmatrixFuncName(num, ss, tr) : num \in {1, 2, 4}, ss \in BOOLEAN, tr \in BOOLEAN}

Generated(g) == g \in loader.done

\* C11: for every count in {1, 2, 4} and every transpose / shared-address flag,
\* register_ldmatrix_instructions registers one function whose template has the
\* count register placeholders %0..%count-1 and the one address placeholder
\* %count, with count output operands and one input operand; ldmatrix with
\* len(regs) outside {1, 2, 4} raises when the call is constructed and builds no
\* call.
C11_LdmatrixShape ==
    /\ pc \in {"import", "ready"} =>
       \A num \in {1, 2, 4}, ss \in BOOLEAN, tr \in BOOLEAN :
          LET name == LdmatrixFuncName(num, ss, tr)
          IN  /\ Generated("register_ldmatrix_instructions") => name \in DOMAIN registry
              /\ name \in DOMAIN registry =>
                    LET f == registry[name]
                    IN  /\ f.name = name
                        /\ f.groups = <<RangeSeq(0, num), <<num>>>>
                        /\ Len(f.outputs) = num
                        /\ Len(f.inputs) = 1
                        /\ \A n \in DOMAIN f.groups[1] :
                              AsmOperands(f)[f.groups[1][n] + 1] = f.outputs[n]
                        /\ AsmOperands(f)[num + 1] = f.inputs[1]
    /\ (pc \in {"import", "ready"} /\ Generated("register_ldmatrix_instructions")) =>
          /\ Cardinality(LdmatrixNames) = 12
          /\ LdmatrixNames \subseteq DOMAIN registry
          /\ registry["cuda_ldmatrix_x1"].template =
                "ldmatrix.sync.aligned.m8n8.x1.b16 {%0}, [%1];"
          /\ registry["cuda_ldmatrix_x2_trans"].template =
                "ldmatrix.sync.aligned.m8n8.x2.trans.b16 {%0, %1}, [%2];"
          /\ registry["cuda_ldmatrix_x4_shared_trans"].template =
                "ldmatrix.sync.aligned.m8n8.x4.trans.shared.b16 {%0, %1, %2, %3}, [%4];"
    /\ last.api = "ldmatrix" =>
          /\ last.ok = (last.input.num \in {1, 2, 4})
          /\ ~last.ok => /\ last.err = "ValueError"
                         /\ last.func_name = "" /\ last.args = <<>>
                         /\ pc = "returned" /\ ~last.executed
          /\ last.ok => /\ last.func_name = LdmatrixFuncName(last.input.num,
                                                            last.input.shared_space_addr,
                                                            last.input.trans)
                        /\ Len(last.args) = last.input.num + 1

C11_Witness ==
    /\ last.api = "ldmatrix"
    /\ last.ok
    /\ last.executed
    /\ last.input.num = 4 /\ last.input.trans /\ last.input.shared_space_addr
    /\ Len(registry[last.func_name].outputs) = 4

C11_WitnessRejected ==
    /\ last.api = "ldmatrix"
    /\ ~last.ok
    /\ last.input.num = 3

\* the names each generator is to register, one per parameter combination
CpAsyncVariants ==
    {p \in {CpAsyncPass(pos) : pos \in 0 .. (CpAsyncPasses - 1)} : ~CpAsyncSkipped(p)}

CpAsyncNames ==
    {"cuda_" \o resolve_name_cp_async(p.cp_size, p.cache_level, p.prefetch_bytes) :
        p \in CpAsyncVariants}

WaitGroupNames == {WaitGroupName(n) : n \in 0 .. (WaitGroupPasses - 1)}

MmaNames == {MmaFuncName(mma_configs[pos].config) : pos \in DOMAIN mma_configs}

NamesOf(g) ==
    CASE g = "register_cp_async" -> CpAsyncNames
      [] g = "register_cp_async_commit_group" -> {"cuda_cp_async_commit_group"}
      [] g = "register_cp_async_wait_group" -> WaitGroupNames
      [] g = "register_cp_async_wait_all" -> {"cuda_cp_async_wait_all"}
      [] g = "register_mma_instructions" -> MmaNames
      [] g = "register_ldmatrix_instructions" -> LdmatrixNames
      [] OTHER -> {}

RECURSIVE SetSum(_, _)
SetSum(S, f) == IF S = {} THEN 0 ELSE LET x == CHOOSE y \in S : TRUE IN f[x] + SetSum(S \ {x}, f)

\* the number of registrations the finished generators have made
RegistrationsDone ==
    SetSum(loader.done,
           [g \in loader.done |->
               CASE g = "register_cp_async" -> Cardinality(CpAsyncVariants)
                 [] g = "register_cp_async_wait_group" -> WaitGroupPasses
                 [] g = "register_mma_instructions" -> Len(mma_configs)
                 [] g = "register_ldmatrix_instructions" -> LdmatrixPasses
                 [] g = "register_mma_configs" -> 0
                 [] OTHER -> 1])

NoDuplicate == pc # "dup_error"

\* with no generator running, the registry holds one entry per registration made
\* and exactly the names of the generators that have run
OncePerName ==
    loader.current = "none" =>
        /\ Cardinality(DOMAIN registry) = RegistrationsDone
        /\ DOMAIN registry = UNION {NamesOf(g) : g \in loader.done}
        /\ \A name \in DOMAIN registry : registry[name].name = name

\* an entry of the registry is never removed or replaced
RegistryGrows ==
    /\ DOMAIN registry \subseteq DOMAIN registry'
    /\ \A name \in DOMAIN registry : registry'[name] = registry[name]

\* C12: whatever the order of the generators (register_mma_instructions after
\* register_mma_configs), every generated name is registered exactly once:
\* distinct parameter combinations give distinct names, the duplicate
\* registration error is never reached and the registry only grows.
C12_RegisteredOnce == [](NoDuplicate /\ OncePerName) /\ [][RegistryGrows]_vars

\* the whole initialization has run
C12_Witness ==
    /\ pc = "ready"
    /\ loader.done = Generators
    /\ Cardinality(DOMAIN registry) = 48
    /\ Len(mma_configs) = 8

\* the generator whose functions a constructor calls
GeneratorOf(api) ==
    CASE api = "cp_async" -> "register_cp_async"
      [] api = "cp_async_commit_group" -> "register_cp_async_commit_group"
      [] api = "cp_async_wait_group" -> "register_cp_async_wait_group"
      [] api = "cp_async_wait_all" -> "register_cp_async_wait_all"
      [] api = "mma_sync" -> "register_mma_instructions"
      [] api = "ldmatrix" -> "register_ldmatrix_instructions"
      [] OTHER -> "none"

\* the (cp_size, prefetch_bytes, cache_level) among those tried that cp_async accepts
CpAsyncAccepted ==
    {t \in [cp_size : CpSizeArgs, prefetch_bytes : PrefetchArgs, cache_level : CacheLevelArgs] :
        cp_async("dst", "src", t.cp_size, <<>>, t.cache_level, t.prefetch_bytes).ok}

\* C13: once the initialization has run, every call a constructor accepts names a
\* function its generator registered (the name handed to call_cuda, prefixed with
\* 'cuda_'); cp_async_wait_group accepts exactly 0 <= n < 10 and raises
\* otherwise; the parameter tuples cp_async accepts are the registered variants.
C13_AcceptedCallsAreRegistered ==
    /\ (last.ok /\ GeneratorOf(last.api) # "none") =>
          /\ loader.done = Generators
          /\ last.func_name \in DOMAIN registry
          /\ last.func_name \in NamesOf(GeneratorOf(last.api))
          /\ registry[last.func_name].name = last.func_name
    /\ last.api = "cp_async_wait_group" =>
          /\ last.ok = (0 <= last.input.n /\ last.input.n < 10)
          /\ last.ok => last.func_name = WaitGroupName(last.input.n)
          /\ ~last.ok => last.err = "ValueError" /\ last.func_name = "" /\ pc = "returned"
    /\ last.api = "cp_async" =>
          /\ CpAsyncAccepted = CpAsyncVariants
          /\ {"cuda_" \o resolve_name_cp_async(t.cp_size, t.cache_level, t.prefetch_bytes) :
                t \in CpAsyncAccepted} = CpAsyncNames
    /\ last.api = "mma_sync" =>
          \A pos \in DOMAIN mma_configs :
              mma_sync(mma_configs[pos].config, "a", "b", "c").func_name \in DOMAIN registry

C13_Witness ==
    /\ last.api = "cp_async_wait_group"
    /\ last.ok
    /\ last.input.n = 9
    /\ last.func_name = "cuda_cp_async_wait_group_9"
    /\ last.func_name \in DOMAIN registry

----------------------------------------------------------------------------
(* Further properties of the lowering                                      *)

\* body starts with the initialization of Reduce node r: the accumulator is a
\* variable of type acc_type set to the identity of r's operation for init_type,
\* and the first reduction loop, if any, is opened right after it
ReduceProlog(body, r, acc_type, init_type) ==
    /\ Len(body) >= 1
    /\ body[1].s = "AssignStmt"
    /\ body[1].var.k = "Var"
    /\ body[1].var.name = r.name
    /\ body[1].var.type = acc_type
    /\ body[1].value = initial_value(r.compute.reduce_operation, init_type)
    /\ r.name \in DOMAIN new_buffer_map /\ new_buffer_map[r.name] = body[1].var
    /\ r.compute.shape # <<>> =>
          /\ Len(body) >= 2
          /\ body[2].s = "ForStmt"
          /\ body[2].loop_var = r.compute.axes[1]

IsGridOfReduce ==
    /\ IsGridRoot
    /\ expr.compute.value.k = "ScalarNode"
    /\ expr.compute.value.compute.c = "ReduceCompute"

\* C14 as claimed: the accumulator of a Reduce Compute has the inferred type of
\* the value expression and is initialised, before the first reduction loop is
\* opened, with the identity of the operation for that same type, also when the
\* node is declared with another type.
C14_InitIdentityOfValueType ==
    Lowered =>
        /\ IsReduceRoot =>
              ReduceProlog(stmts, expr, infer_type(expr.compute.value),
                           infer_type(expr.compute.value))
        /\ IsGridOfReduce =>
              ReduceProlog(NestBody(stmts, expr.compute.axes, expr.compute.shape),
                           expr.compute.value, infer_type(expr.compute.value.compute.value),
                           infer_type(expr.compute.value.compute.value))

\* what the code does: the identity is taken for the node's declared type
ReduceInitOfDeclaredType ==
    Lowered =>
        /\ IsReduceRoot =>
              ReduceProlog(stmts, expr, infer_type(expr.compute.value), expr.data_type)
        /\ IsGridOfReduce =>
              ReduceProlog(NestBody(stmts, expr.compute.axes, expr.compute.shape),
                           expr.compute.value, infer_type(expr.compute.value.compute.value),
                           expr.compute.value.data_type)

RECURSIVE SeqSum(_)
SeqSum(ns) == IF ns = <<>> THEN 0 ELSE Head(ns) + SeqSum(Tail(ns))

\* the number of occurrences of the node `name` in expression e: one per path
\* from e to the node
RECURSIVE Occurrences(_, _)
Occurrences(e, name) ==
    CASE e.k \in {"Constant", "Var"} -> 0
      [] e.k \in {"TensorNode", "ScalarNode"} ->
            (IF e.name = name THEN 1 ELSE 0)
            + (IF e.compute.c \in {"None", "CustomCompute"} THEN 0
               ELSE Occurrences(e.compute.value, name))
      [] e.k = "TensorElement" ->
            Occurrences(e.base, name)
            + SeqSum([n \in DOMAIN e.indices |-> Occurrences(e.indices[n], name)])
      [] OTHER -> Occurrences(e.a, name) + Occurrences(e.b, name)

\* the number of stores to a buffer of node `name` in the statements ss, at any depth
RECURSIVE StoreCount(_, _)
StoreCount(ss, name) ==
    IF ss = <<>> THEN 0
    ELSE (CASE Head(ss).s = "BufferStoreStmt" -> IF Head(ss).buf.name = name THEN 1 ELSE 0
            [] Head(ss).s \in {"ForStmt", "IfStmt"} -> StoreCount(Head(ss).body, name)
            [] OTHER -> 0)
         + StoreCount(Tail(ss), name)

\* expr is x[..] + y[..] with x and y Grid Compute nodes
IsSumOfTwoGrids ==
    /\ expr.k = "Add"
    /\ expr.a.k = "TensorElement" /\ expr.b.k = "TensorElement"
    /\ expr.a.base.k = "TensorNode" /\ expr.a.base.compute.c = "GridCompute"
    /\ expr.b.base.k = "TensorNode" /\ expr.b.base.compute.c = "GridCompute"

\* C15: a compute node that occurs k times in the expression is lowered k times,
\* one copy of its loop nest per occurrence, and the copies appear in the order
\* in which the occurrences are met going through each parent's children from
\* left to right.
C15_LoweredPerOccurrence ==
    Lowered =>
        /\ \A g \in GridNodes(expr) : StoreCount(stmts, g.name) = Occurrences(expr, g.name)
        /\ IsSumOfTwoGrids =>
              /\ Len(stmts) = 2
              /\ IsGridNest(<<stmts[1]>>, expr.a.base)
              /\ IsGridNest(<<stmts[2]>>, expr.b.base)
              /\ value.k = "Add"
              /\ value.a.base = Last(NestBody(<<stmts[1]>>, expr.a.base.compute.axes,
                                              expr.a.base.compute.shape)).buf
              /\ value.b.base = Last(NestBody(<<stmts[2]>>, expr.b.base.compute.axes,
                                              expr.b.base.compute.shape)).buf

\* the same node twice under one parent, lowered twice, and not in input_map
C15_Witness ==
    /\ pc = "done"
    /\ IsSumOfTwoGrids
    /\ expr.a.base = expr.b.base
    /\ input_map = EmptyMap
    /\ StoreCount(stmts, expr.a.base.name) = 2
    /\ value.a.base # value.b.base

\* a statement builder with d loops of some enclosing node open
RECURSIVE OpenScopes(_)
OpenScopes(d) ==
    IF d = 0 THEN StmtBuilder
    ELSE SbEnterBody(OpenScopes(d - 1), ForStmt(Var("outer", "int32", d), 1))

\* visiting node with d loops open returns with d loops open, and has written
\* to the innermost open scope only
BalancedAt(node, d) ==
    LET st0 == [LoopExpander EXCEPT !.sb = OpenScopes(d)]
        r   == visit(node, st0, input_map)
    IN  r.st.err = "none" =>
            /\ SbDepth(r.st.sb) = SbDepth(st0.sb)
            /\ \A n \in 1 .. d : r.st.sb[n] = st0.sb[n]
            /\ node.compute.c # "None" => Len(r.st.sb[d + 1]) > 0

\* the loop nest of Reduce node r starting at position p of body: one ForStmt per
\* dimension with the combine statement innermost, or the bare combine statement
\* when r has no dimension
IsReduceNestAt(body, p, r) ==
    /\ Len(body) >= p
    /\ LET inner == NestBody(<<body[p]>>, r.compute.axes, r.compute.shape)
       IN  /\ Len(inner) = 1
           /\ inner[1].s = "AssignStmt"
           /\ inner[1].var = body[1].var
           /\ inner[1].value.k \in {"Add", "Max", "Min"}
           /\ inner[1].value.a = body[1].var

\* body is what lowering Reduce node r emits: initialization, loop nest and, for
\* a node in input_map, the write-back of the finalized value after the loops
IsReduceBlock(body, r) ==
    /\ Len(body) = IF r.name \in DOMAIN input_map THEN 3 ELSE 2
    /\ body[1].s = "AssignStmt"
    /\ IsReduceNestAt(body, 2, r)
    /\ r.name \in DOMAIN input_map =>
          body[3] = AssignStmt(input_map[r.name],
                               finalize(r.compute.reduce_operation, body[1].var,
                                        prod(r.compute.shape)))

\* body is what lowering Arg-Reduce node r emits: two initializations, one loop
\* holding the guarded update and, for a node in input_map, the write-back
IsArgReduceBlock(body, r) ==
    /\ Len(body) = IF r.name \in DOMAIN input_map THEN 4 ELSE 3
    /\ body[1].s = "DeclareStmt"
    /\ body[2].s = "AssignStmt"
    /\ body[3].s = "ForStmt"
    /\ body[3].loop_var = r.compute.axis /\ body[3].extent = r.compute.extent
    /\ Len(body[3].body) = 1
    /\ body[3].body[1].s = "IfStmt"
    /\ Len(body[3].body[1].body) = 2
    /\ r.name \in DOMAIN input_map => body[4] = AssignStmt(input_map[r.name], body[2].var)

IsGridOfArgReduce ==
    /\ IsGridRoot
    /\ expr.compute.value.k = "ScalarNode"
    /\ expr.compute.value.compute.c = "ArgReduceCompute"

AllButLast(ss) == SubSeq(ss, 1, Len(ss) - 1)

\* C16: every compute node lowered without error leaves the statement builder at
\* the loop depth it found it at, and the depth is 0 when expand returns; the
\* write-back and the statements of a later sibling are outside the loops of the
\* node before them, and a nested node's statements are in the innermost loop of
\* its parent, before the parent's store.
C16_ScopesBalanced ==
    /\ pc \in {"done", "failed"} =>
          \A node \in NodesOf(expr), d \in 0 .. 2 : BalancedAt(node, d)
    /\ Lowered =>
          /\ SbDepth(visit(expr, LoopExpander, input_map).st.sb) = 0
          /\ IsReduceRoot => IsReduceBlock(stmts, expr)
          /\ IsArgRoot => IsArgReduceBlock(stmts, expr)
          /\ IsSumOfTwoGrids =>
                /\ Len(stmts) = 2
                /\ IsGridNest(<<stmts[1]>>, expr.a.base)
                /\ IsGridNest(<<stmts[2]>>, expr.b.base)
          /\ IsGridRoot => IsGridNest(stmts, expr)
          /\ IsGridOfReduce =>
                IsReduceBlock(AllButLast(NestBody(stmts, expr.compute.axes, expr.compute.shape)),
                              expr.compute.value)
          /\ IsGridOfArgReduce =>
                IsArgReduceBlock(AllButLast(NestBody(stmts, expr.compute.axes,
                                                     expr.compute.shape)),
                                 expr.compute.value)

\* a reduction in input_map nested in a grid of two dimensions has been lowered
C16_Witness ==
    /\ pc = "done"
    /\ IsGridOfReduce
    /\ Len(expr.compute.shape) = 2
    /\ expr.compute.value.name \in DOMAIN input_map
    /\ Len(NestBody(stmts, expr.compute.axes, expr.compute.shape)) = 4
    /\ BalancedAt(expr.compute.value, 2)

=============================================================================
